---------------------------- MODULE Spec2Model ----------------------------
(***************************************************************************)
(* A model of the license codecs of the keygen tools:                      *)
(*   atlassian-keygen/generate_license.py  (AtlassianLicenseEncoder)       *)
(*   atlassian-keygen/decode_license.py    (AtlassianLicenseDecoder)       *)
(*   atlassian-keygen/utils.py             (int2str)                       *)
(*   gliffy-keygen/generate_license.py     (GliffyLicenseGenerator)        *)
(*                                                                         *)
(* Text (python unicode) is a sequence of code points, a byte string is a  *)
(* sequence of numbers in 0..255.  The library calls of the code (zlib,    *)
(* base64, struct, textwrap, hashlib, M2Crypto.DSA, int(), str.format) are *)
(* modelled by what they compute on the values the model feeds them; each  *)
(* such operator says which part of the library's behaviour it covers.     *)
(***************************************************************************)
EXTENDS Integers, Sequences, FiniteSets, TLC

(***************************************************************************)
(* Bounds of the model.                                                    *)
(***************************************************************************)
\* longest prefix of the printable-ASCII sample used as a license text
MaxTextLen == 90
\* longest license text drawn freely over ShortAlphabet
MaxShortLen == 2
\* the DSA per-signature secrets k that sign_asn1 may draw: 1..MaxNonce
MaxNonce == 3
\* longest token received from outside that is drawn freely over RawAlphabet
MaxRawLen == 4

(***************************************************************************)
(* Generic helpers on sequences and numbers.                               *)
(***************************************************************************)
Min(a, b) == IF a <= b THEN a ELSE b

Pow2(n) == 2 ^ n

\* python slice s[a:b] for 0 <= a, with b clamped to len(s)
Slice(s, a, b) == SubSeq(s, a + 1, Min(b, Len(s)))

\* python s[::-1]
Reverse(s) == [i \in 1..Len(s) |-> s[Len(s) + 1 - i]]

RECURSIVE FlattenRange(_, _, _)
FlattenRange(parts, lo, hi) ==
    IF lo > hi THEN <<>>
    ELSE IF lo = hi THEN parts[lo]
    ELSE FlattenRange(parts, lo, (lo + hi) \div 2)
             \o FlattenRange(parts, ((lo + hi) \div 2) + 1, hi)

\* ''.join(parts) for a sequence of sequences
Flatten(parts) == FlattenRange(parts, 1, Len(parts))

RECURSIVE FoldRange(_, _, _, _)
\* a loop `for i in lo..hi: st = Step(st, i)` that ends early once st.stop
\* is set (a break, a return or a raise inside the loop)
FoldRange(Step(_, _), st, lo, hi) ==
    IF lo > hi THEN st
    ELSE IF lo = hi THEN (IF st.stop THEN st ELSE Step(st, lo))
    ELSE LET left == FoldRange(Step, st, lo, (lo + hi) \div 2)
         IN  IF left.stop THEN left
             ELSE FoldRange(Step, left, ((lo + hi) \div 2) + 1, hi)

\* all sequences over S of length 0..n
SeqsUpTo(S, n) == UNION {[1..m -> S] : m \in 0..n}

(***************************************************************************)
(* Characters (code points).                                               *)
(***************************************************************************)
NEWLINE == 10
\* unicode.isspace() on the ASCII range: \t \n \v \f \r, FS GS RS US, space
isspace(c) == (c >= 9 /\ c <= 13) \/ (c >= 28 /\ c <= 32)

\* the value of a character as a digit of int(text, base): 0-9, then
\* a-z and A-Z alike as 10..35; 99 for a character that is no digit
DigitValue(c) ==
    IF c >= 48 /\ c <= 57 THEN c - 48
    ELSE IF c >= 97 /\ c <= 122 THEN c - 97 + 10
    ELSE IF c >= 65 /\ c <= 90 THEN c - 65 + 10
    ELSE 99

(***************************************************************************)
(* utils.int2str and the builtin int().                                    *)
(***************************************************************************)
\* string.digits + string.ascii_lowercase, as a function of the index 0..35
ENCODED_LICENSE_LENGTH_ALPHABET(i) == IF i < 10 THEN 48 + i ELSE 97 + (i - 10)

RECURSIVE iter_magnitude(_, _)
\* the while loop of _iter_digits: least significant digit first
iter_magnitude(number, base) ==
    IF number > 0
    THEN <<ENCODED_LICENSE_LENGTH_ALPHABET(number % base)>>
             \o iter_magnitude(number \div base, base)
    ELSE <<>>

\* utils._iter_digits(number, base, alphabet), the digits it yields in order
iter_digits(number, base) ==
    IF number = 0 THEN <<ENCODED_LICENSE_LENGTH_ALPHABET(0)>>
    ELSE IF number < 0 THEN iter_magnitude(-number, base) \o <<45>>
    ELSE iter_magnitude(number, base)

int2str_unreversed(number, base) == iter_digits(number, base)

\* utils.int2str(number, base, alphabet)
int2str(number, base) == Reverse(iter_digits(number, base))

RECURSIVE DigitsValue(_, _, _)
\* the value of a non-empty run of digits, most significant first
DigitsValue(digits, base, acc) ==
    IF digits = <<>> THEN acc
    ELSE DigitsValue(Tail(digits), base, acc * base + DigitValue(Head(digits)))

\* python 2 int(text, base) for base 10 and 31 on ASCII text without
\* whitespace: an optional sign, then one or more digits below base (letters
\* in either case); anything else is a ValueError (ok = FALSE)
PyInt(text, base) ==
    LET signed == text # <<>> /\ (text[1] = 43 \/ text[1] = 45)
        digits == IF signed THEN Tail(text) ELSE text
        valid  == digits # <<>>
                  /\ \A i \in 1..Len(digits) : DigitValue(digits[i]) < base
        mag    == IF valid THEN DigitsValue(digits, base, 0) ELSE 0
    IN  [ok |-> valid,
         value |-> IF signed /\ text[1] = 45 THEN -mag ELSE mag]


(***************************************************************************)
(* base64 (python 2: base64.b64encode, base64.b64decode).                  *)
(***************************************************************************)
BASE64_PAD == 61

\* the base64 alphabet: A-Z a-z 0-9 + /
B64Char(i) ==
    IF i < 26 THEN 65 + i
    ELSE IF i < 52 THEN 97 + (i - 26)
    ELSE IF i < 62 THEN 48 + (i - 52)
    ELSE IF i = 62 THEN 43 ELSE 47

\* binascii's table_a2b_base64: the 6-bit value of a character, -1 for a
\* character outside the alphabet
B64Index(c) ==
    IF c >= 65 /\ c <= 90 THEN c - 65
    ELSE IF c >= 97 /\ c <= 122 THEN c - 97 + 26
    ELSE IF c >= 48 /\ c <= 57 THEN c - 48 + 52
    ELSE IF c = 43 THEN 62
    ELSE IF c = 47 THEN 63
    ELSE -1

\* base64.b64encode(data): 3 bytes to 4 characters, '=' padding at the end
b64encode(data) ==
    LET n == Len(data)
        byte(k) == IF k <= n THEN data[k] ELSE 0
        char(j) ==
            LET g  == (j - 1) \div 4
                p  == (j - 1) % 4
                b0 == byte(3 * g + 1)
                b1 == byte(3 * g + 2)
                b2 == byte(3 * g + 3)
            IN  IF p = 0 THEN B64Char(b0 \div 4)
                ELSE IF p = 1 THEN B64Char(((b0 % 4) * 16) + (b1 \div 16))
                ELSE IF p = 2
                THEN IF 3 * g + 2 > n THEN BASE64_PAD
                     ELSE B64Char(((b1 % 16) * 4) + (b2 \div 64))
                ELSE IF 3 * g + 3 > n THEN BASE64_PAD
                     ELSE B64Char(b2 % 64)
    IN  [j \in 1..(4 * ((n + 2) \div 3)) |-> char(j)]

RECURSIVE binascii_find_valid(_, _, _)
\* binascii_find_valid(s, slen, num): the (num+1)th character from position
\* i on that the table knows ('=' counts, its entry is 0), -1 if none
binascii_find_valid(s, i, num) ==
    IF i > Len(s) THEN -1
    ELSE IF s[i] <= 127 /\ (B64Index(s[i]) # -1 \/ s[i] = BASE64_PAD)
    THEN IF num = 0 THEN s[i] ELSE binascii_find_valid(s, i + 1, num - 1)
    ELSE binascii_find_valid(s, i + 1, num)

\* one round of the loop of binascii.a2b_base64 (python 2.7), on character i
a2b_step(s, st, i) ==
    LET c == s[i]
    IN  IF c > 127 \/ c = 13 \/ c = 10 \/ c = 32 THEN st
        ELSE IF c = BASE64_PAD
        THEN IF st.quad_pos < 2
                \/ (st.quad_pos = 2
                    /\ binascii_find_valid(s, i, 1) # BASE64_PAD)
             THEN st
             ELSE [st EXCEPT !.stop = TRUE, !.leftbits = 0]
        ELSE IF B64Index(c) = -1 THEN st
        ELSE
          LET lc == (st.leftchar * 64) + B64Index(c)
              lb == st.leftbits + 6
          IN  IF lb >= 8
              THEN [st EXCEPT !.quad_pos = (st.quad_pos + 1) % 4,
                              !.leftchar = lc % Pow2(lb - 8),
                              !.leftbits = lb - 8,
                              !.out = Append(st.out, (lc \div Pow2(lb - 8)) % 256)]
              ELSE [st EXCEPT !.quad_pos = (st.quad_pos + 1) % 4,
                              !.leftchar = lc,
                              !.leftbits = lb]

\* base64.b64decode(s) of python 2: characters outside the alphabet are
\* skipped, leftover bits are binascii.Error, re-raised as TypeError
b64decode(s) ==
    LET step(st, i) == a2b_step(s, st, i)
        r == FoldRange(step,
                       [stop |-> FALSE, quad_pos |-> 0, leftchar |-> 0,
                        leftbits |-> 0, out |-> <<>>],
                       1, Len(s))
    IN  IF r.leftbits # 0 THEN [ok |-> FALSE, data |-> <<>>]
        ELSE [ok |-> TRUE, data |-> r.out]

(***************************************************************************)
(* struct.pack('>L', n) and struct.unpack('>L', data).                     *)
(***************************************************************************)
struct_pack(n) ==
    <<(n \div 16777216) % 256, (n \div 65536) % 256, (n \div 256) % 256, n % 256>>

\* struct.error unless data holds exactly 4 bytes
struct_unpack(data) ==
    IF Len(data) # 4 THEN [ok |-> FALSE, value |-> 0]
    ELSE [ok |-> TRUE,
          value |-> ((data[1] * 256 + data[2]) * 256 + data[3]) * 256 + data[4]]

(***************************************************************************)
(* UTF-8: unicode.encode('utf-8') and bytes.decode('utf-8').               *)
(***************************************************************************)
utf8_char(cp) ==
    IF cp < 128 THEN <<cp>>
    ELSE IF cp < 2048 THEN <<192 + (cp \div 64), 128 + (cp % 64)>>
    ELSE <<224 + (cp \div 4096), 128 + ((cp \div 64) % 64), 128 + (cp % 64)>>

\* text.encode('utf-8') for code points below 65536
utf8_encode(text) == Flatten([i \in 1..Len(text) |-> utf8_char(text[i])])

\* one byte of the decoder: need counts the continuation bytes still due,
\* low..high is the range the next one must lie in (it excludes the overlong
\* forms and the code points above 10FFFF)
utf8_step(data, st, i) ==
    LET b == data[i]
    IN  IF st.need > 0
        THEN IF b >= st.low /\ b <= st.high
             THEN IF st.need = 1
                  THEN [st EXCEPT !.need = 0, !.low = 128, !.high = 191,
                           !.text = Append(st.text, (st.cp * 64) + (b - 128))]
                  ELSE [st EXCEPT !.need = st.need - 1, !.low = 128, !.high = 191,
                           !.cp = (st.cp * 64) + (b - 128)]
             ELSE [st EXCEPT !.stop = TRUE, !.ok = FALSE]
        ELSE IF b < 128 THEN [st EXCEPT !.text = Append(st.text, b)]
        ELSE IF b >= 194 /\ b <= 223
        THEN [st EXCEPT !.need = 1, !.cp = b - 192]
        ELSE IF b >= 224 /\ b <= 239
        THEN [st EXCEPT !.need = 2, !.cp = b - 224,
                        !.low = IF b = 224 THEN 160 ELSE 128]
        ELSE IF b >= 240 /\ b <= 244
        THEN [st EXCEPT !.need = 3, !.cp = b - 240,
                        !.low = IF b = 240 THEN 144 ELSE 128,
                        !.high = IF b = 244 THEN 143 ELSE 191]
        ELSE [st EXCEPT !.stop = TRUE, !.ok = FALSE]

\* data.decode('utf-8'): ok = FALSE is UnicodeDecodeError
utf8_decode(data) ==
    LET step(st, i) == utf8_step(data, st, i)
        r == FoldRange(step,
                       [stop |-> FALSE, ok |-> TRUE, need |-> 0, low |-> 128,
                        high |-> 191, cp |-> 0, text |-> <<>>],
                       1, Len(data))
    IN  IF r.ok /\ r.need = 0 THEN [ok |-> TRUE, text |-> r.text]
        ELSE [ok |-> FALSE, text |-> <<>>]

(***************************************************************************)
(* zlib.compress(data, 9) and zlib.decompress(data).                       *)
(*                                                                         *)
(* compress: the stream zlib writes for the short inputs of this model, a *)
(* 2-byte header, one final fixed-Huffman block of literals, the Adler-32 *)
(* of the data.  decompress: the inverse on such streams; a stream it     *)
(* cannot read is zlib.error.  Stored and dynamic blocks, length codes    *)
(* and further blocks are outside the model ("unmodelled"); no token of   *)
(* the model holds one.                                                    *)
(***************************************************************************)
ADLER_BASE == 65521

adler32_step(data, st, i) ==
    [st EXCEPT !.a = (st.a + data[i]) % ADLER_BASE,
               !.b = (st.b + ((st.a + data[i]) % ADLER_BASE)) % ADLER_BASE]

\* the 4 bytes of the Adler-32 checksum, most significant first
adler32(data) ==
    LET step(st, i) == adler32_step(data, st, i)
        r == FoldRange(step, [stop |-> FALSE, a |-> 1, b |-> 0], 1, Len(data))
    IN  <<r.b \div 256, r.b % 256, r.a \div 256, r.a % 256>>

\* the bits of a number in n bits, most significant first
BitsMSB(v, n) == [i \in 1..n |-> (v \div Pow2(n - i)) % 2]

\* the fixed Huffman code of a literal byte: 8 bits below 144, 9 bits above
LiteralCode(b) == IF b < 144 THEN BitsMSB(48 + b, 8) ELSE BitsMSB(256 + b, 9)

\* bits to bytes, the first bit the least significant, zero padded
PackBits(bits) ==
    LET bit(k) == IF k <= Len(bits) THEN bits[k] ELSE 0
    IN  [m \in 1..((Len(bits) + 7) \div 8) |->
            bit(8 * m - 7) + (2 * bit(8 * m - 6)) + (4 * bit(8 * m - 5))
            + (8 * bit(8 * m - 4)) + (16 * bit(8 * m - 3))
            + (32 * bit(8 * m - 2)) + (64 * bit(8 * m - 1))
            + (128 * bit(8 * m))]

\* the deflate stream: BFINAL = 1, BTYPE = 01, the literals, end-of-block
deflate_fixed(data) ==
    PackBits(<<1, 1, 0>>
             \o Flatten([i \in 1..Len(data) |-> LiteralCode(data[i])])
             \o <<0, 0, 0, 0, 0, 0, 0>>)

\* zlib.compress(data, 9): header 78 DA, the deflate stream, the Adler-32
zlib_compress(data) == <<120, 218>> \o deflate_fixed(data) \o adler32(data)

\* bit j (from 0) of a byte string, the least significant bit of a byte first
BitAt(data, j) == (data[(j \div 8) + 1] \div Pow2(j % 8)) % 2

RECURSIVE HuffBits(_, _, _)
\* the n bits from bit j on read as a Huffman code (most significant first)
HuffBits(data, j, n) ==
    IF n = 0 THEN 0 ELSE (2 * HuffBits(data, j, n - 1)) + BitAt(data, j + n - 1)

\* one symbol of a fixed-Huffman block, read at bit st.next
inflate_step(data, st, i) ==
    LET nbits == 8 * Len(data)
        j     == st.next
        fail(kind) == [st EXCEPT !.stop = TRUE, !.kind = kind]
    IN  IF j + 7 > nbits THEN fail("error")
        ELSE IF HuffBits(data, j, 7) = 0
        THEN [st EXCEPT !.stop = TRUE, !.kind = "ok", !.next = j + 7]
        ELSE IF HuffBits(data, j, 7) <= 23 THEN fail("unmodelled")
        ELSE IF j + 8 > nbits THEN fail("error")
        ELSE IF HuffBits(data, j, 8) >= 48 /\ HuffBits(data, j, 8) <= 191
        THEN [st EXCEPT !.next = j + 8,
                        !.out = Append(st.out, HuffBits(data, j, 8) - 48)]
        ELSE IF HuffBits(data, j, 8) >= 192 /\ HuffBits(data, j, 8) <= 199
        THEN fail("unmodelled")
        ELSE IF j + 9 > nbits THEN fail("error")
        ELSE [st EXCEPT !.next = j + 9,
                        !.out = Append(st.out, HuffBits(data, j, 9) - 256)]

\* the symbols of a fixed-Huffman block from bit j on, up to end-of-block
inflate_fixed(data, j) ==
    LET step(st, i) == inflate_step(data, st, i)
    IN  FoldRange(step,
                  [stop |-> FALSE, kind |-> "error", next |-> j, out |-> <<>>],
                  1, Len(data) + 1)

\* zlib.decompress(data): "ok" with the inflated bytes, "error" (zlib.error)
\* or "unmodelled"
zlib_decompress(data) ==
    IF Len(data) < 3 THEN [kind |-> "error", data |-> <<>>]
    ELSE IF data[1] % 16 # 8 \/ data[1] \div 16 > 7
            \/ ((data[1] * 256) + data[2]) % 31 # 0
            \/ (data[2] \div 32) % 2 = 1
    THEN [kind |-> "error", data |-> <<>>]
    ELSE
      LET body  == SubSeq(data, 3, Len(data))
          btype == BitAt(body, 1) + (2 * BitAt(body, 2))
          block == inflate_fixed(body, 3)
          tail  == SubSeq(body, ((block.next + 7) \div 8) + 1, Len(body))
      IN  IF btype = 3 THEN [kind |-> "error", data |-> <<>>]
          ELSE IF btype # 1 THEN [kind |-> "unmodelled", data |-> <<>>]
          ELSE IF block.kind # "ok" THEN [kind |-> block.kind, data |-> <<>>]
          ELSE IF BitAt(body, 0) = 0 THEN [kind |-> "unmodelled", data |-> <<>>]
          ELSE IF Len(tail) < 4 \/ SubSeq(tail, 1, 4) # adler32(block.out)
          THEN [kind |-> "error", data |-> <<>>]
          ELSE [kind |-> "ok", data |-> block.out]

(***************************************************************************)
(* hashlib.sha1 and M2Crypto.DSA.                                          *)
(*                                                                         *)
(* The digest is modelled by a polynomial hash and DSA by its arithmetic   *)
(* over a small group: signing draws a per-signature secret k, and         *)
(* verify_asn1 (OpenSSL's DSA_verify) answers 1 for a signature of the     *)
(* digest, 0 for another well-formed signature, and -1, which M2Crypto     *)
(* raises as DSAError, for bytes that are no DER signature.                *)
(***************************************************************************)
sha1_step(data, st, i) == [st EXCEPT !.h = ((st.h * 31) + data[i] + 1) % 65521]

\* hashlib.sha1(data).digest(), as a number
sha1(data) ==
    LET step(st, i) == sha1_step(data, st, i)
    IN  FoldRange(step, [stop |-> FALSE, h |-> 7], 1, Len(data)).h

\* the DSA group (p, q, g) of the key files and the private numbers x of the
\* two key files the tools name by default: the encoder's calfzhou.pem and
\* the decoder's atlassian.pem
DSA_KEY == [p |-> 45887, q |-> 22943, g |-> 12149, x |-> 57, x_atlassian |-> 23]

RECURSIVE ModExp(_, _, _)
\* b^e mod m by squaring
ModExp(b, e, m) ==
    IF e = 0 THEN 1 % m
    ELSE IF e % 2 = 1 THEN (b * ModExp(b, e - 1, m)) % m
    ELSE LET half == ModExp(b, e \div 2, m) IN (half * half) % m

\* M2Crypto.DSA.load_pub_key(path): the public y = g^x mod p of a key file
load_pub_key(path) ==
    IF path = "calfzhou.pem" THEN ModExp(DSA_KEY.g, DSA_KEY.x, DSA_KEY.p)
    ELSE ModExp(DSA_KEY.g, DSA_KEY.x_atlassian, DSA_KEY.p)

ModInv(a, q) == ModExp(a, q - 2, q)

dsa_r(k) == ModExp(DSA_KEY.g, k, DSA_KEY.p) % DSA_KEY.q

dsa_s(digest, k) ==
    (ModInv(k, DSA_KEY.q)
         * (((digest % DSA_KEY.q) + (DSA_KEY.x * dsa_r(k))) % DSA_KEY.q))
        % DSA_KEY.q

\* the DER encoding of (r, s), both two bytes long and below 2^15:
\* SEQUENCE { INTEGER r, INTEGER s }
der_signature(r, s) ==
    <<48, 8, 2, 2, r \div 256, r % 256, 2, 2, s \div 256, s % 256>>

\* self._dsa.sign_asn1(digest), with the secret k it drew
sign_asn1(digest, k) == der_signature(dsa_r(k), dsa_s(digest, k))

\* the secrets sign_asn1 may draw for a digest: OpenSSL draws again when r
\* or s comes out 0
usable_secret(digest, k) == dsa_r(k) # 0 /\ dsa_s(digest, k) # 0

\* whether the bytes are the DER encoding of two INTEGERs of two bytes
der_well_formed(sig) ==
    /\ Len(sig) = 10
    /\ sig[1] = 48 /\ sig[2] = 8
    /\ sig[3] = 2 /\ sig[4] = 2
    /\ sig[7] = 2 /\ sig[8] = 2

\* dsa.verify_asn1(digest, signature) for the public key y: 1, 0 or -1
verify_asn1(y, digest, sig) ==
    IF ~der_well_formed(sig) THEN -1
    ELSE
      LET r  == (256 * sig[5]) + sig[6]
          s  == (256 * sig[9]) + sig[10]
          q  == DSA_KEY.q
          p  == DSA_KEY.p
          w  == ModInv(s, q)
          u1 == ((digest % q) * w) % q
          u2 == (r * w) % q
          v  == ((ModExp(DSA_KEY.g, u1, p) * ModExp(y, u2, p)) % p) % q
      IN  IF r < 1 \/ r >= q \/ s < 1 \/ s >= q THEN 0
          ELSE IF v = r THEN 1 ELSE 0

(***************************************************************************)
(* textwrap.wrap(text, width) and the newline join.                        *)
(***************************************************************************)
RECURSIVE textwrap_wrap(_, _)
\* textwrap.wrap on a text without whitespace or hyphens: the text is one
\* chunk, which _handle_long_word cuts after every width characters; the
\* empty text gives no line
textwrap_wrap(text, width) ==
    IF text = <<>> THEN <<>>
    ELSE IF Len(text) <= width THEN <<text>>
    ELSE <<SubSeq(text, 1, width)>>
             \o textwrap_wrap(SubSeq(text, width + 1, Len(text)), width)

\* the lines put one after another with nothing between them
concat_lines(lines) == Flatten(lines)

RECURSIVE join_lines(_)
\* '\n'.join(lines)
join_lines(lines) ==
    IF lines = <<>> THEN <<>>
    ELSE IF Len(lines) = 1 THEN lines[1]
    ELSE lines[1] \o <<NEWLINE>> \o join_lines(Tail(lines))

(***************************************************************************)
(* '{}'.format(n) and '{:0{}}'.format(n, width) for an integer n.          *)
(***************************************************************************)
RECURSIVE DecimalDigits(_)
DecimalDigits(n) ==
    IF n < 10 THEN <<48 + n>> ELSE Append(DecimalDigits(n \div 10), 48 + (n % 10))

\* '{}'.format(n): the decimal text of an integer
format_int(n) == IF n < 0 THEN <<45>> \o DecimalDigits(-n) ELSE DecimalDigits(n)

\* the decimal text without the padding
format_unpadded(n, width) == DecimalDigits(n)

\* '{:0{}}'.format(n, width) for n >= 0: zero padded on the left to width
format_zero_padded(n, width) ==
    LET digits == DecimalDigits(n)
    IN  [i \in 1..(width - Min(width, Len(digits))) |-> 48] \o digits

(***************************************************************************)
(* AtlassianLicenseEncoder (generate_license.py).                          *)
(***************************************************************************)
VERSION_NUMBER == 2
VERSION_LENGTH == 3
ENCODED_LICENSE_LENGTH_BASE == 31
LICENSE_PREFIX == <<13, 14, 12, 10, 15>>
SEPARATOR == 88
ENCODED_LICENSE_LINE_LENGTH == 76

\* encode, lines 150-161: the bytes that are base64-encoded, signed with the
\* per-signature secret k
license_blob(license_text, k) ==
    LET compressed_data == zlib_compress(utf8_encode(license_text))
        license_prefix  == utf8_encode(LICENSE_PREFIX)
        license_bytes   == license_prefix \o compressed_data
        license_digest  == sha1(license_bytes)
        signature_bytes == sign_asn1(license_digest, k)
        license_length  == Len(license_bytes)
        length_bytes    == struct_pack(license_length)
    IN  length_bytes \o license_bytes \o signature_bytes

\* encode, lines 162-168: the unwrapped token of a base64 payload
encoded_license(license_base64) ==
    LET encoded_length == int2str(Len(license_base64),
                                  ENCODED_LICENSE_LENGTH_BASE)
        version_text   == format_zero_padded(VERSION_NUMBER, VERSION_LENGTH - 1)
    IN  license_base64 \o <<SEPARATOR>> \o version_text \o encoded_length

\* encode, lines 169-170: '\n'.join(textwrap.wrap(token, 76)) + '\n'
wrapped_license(token) ==
    join_lines(textwrap_wrap(token, ENCODED_LICENSE_LINE_LENGTH)) \o <<NEWLINE>>

\* AtlassianLicenseEncoder.encode(license_text)
encode(license_text, k) ==
    wrapped_license(encoded_license(b64encode(license_blob(license_text, k))))

(***************************************************************************)
(* AtlassianLicenseDecoder (decode_license.py).                            *)
(***************************************************************************)
VALID_VERSION_NUMBERS == {1, 2}
DECODER_VERSION_LENGTH == 3
DECODER_LENGTH_BASE == 31
DECODER_LICENSE_PREFIX == <<13, 14, 12, 10, 15>>
DECODER_SEPARATOR == 88

\* _remove_whitespaces(text)
remove_whitespaces(text) == SelectSeq(text, LAMBDA c : ~isspace(c))

\* text.rfind(c): the index (from 0) of the last c, -1 if there is none
rfind(text, c) ==
    IF \E i \in 1..Len(text) : text[i] = c
    THEN (CHOOSE i \in 1..Len(text) :
              text[i] = c /\ \A j \in (i + 1)..Len(text) : text[j] # c) - 1
    ELSE -1

\* a failed check that is let through
NoError(message) == [ok |-> TRUE, message |-> message, content |-> <<>>]

LicenseDecodeError(message) ==
    [ok |-> FALSE, message |-> message, content |-> <<>>]

\* the content before the last separator, taken without any check
get_license_content_unchecked(atlassian_license) ==
    [ok |-> TRUE, message |-> "",
     content |-> Slice(atlassian_license, 0,
                       rfind(atlassian_license, DECODER_SEPARATOR))]

\* _get_license_content(atlassian_license): the content, or the
\* LicenseDecodeError it raises; a message is the fixed leading part of the
\* message of the source, without the values formatted into it
get_license_content(atlassian_license) ==
    LET pos     == rfind(atlassian_license, DECODER_SEPARATOR)
        version == PyInt(Slice(atlassian_license, pos + 1,
                               pos + DECODER_VERSION_LENGTH), 10)
        license_length ==
            PyInt(Slice(atlassian_license, pos + DECODER_VERSION_LENGTH,
                        Len(atlassian_license)), DECODER_LENGTH_BASE)
    IN  IF atlassian_license = <<>>
        THEN LicenseDecodeError("license has no content")
        ELSE IF pos < 0 THEN LicenseDecodeError("cannot find separator")
        ELSE IF pos + DECODER_VERSION_LENGTH >= Len(atlassian_license)
        THEN LicenseDecodeError("incomplete license")
        ELSE IF ~version.ok THEN LicenseDecodeError("non-integer version number")
        ELSE IF version.value \notin VALID_VERSION_NUMBERS
        THEN LicenseDecodeError("unsupported license version")
        ELSE IF ~license_length.ok
        THEN LicenseDecodeError("non-31-based-integer license length")
        ELSE IF pos # license_length.value
        THEN LicenseDecodeError("incorrect checksum")
        ELSE [ok |-> TRUE, message |-> "",
              content |-> Slice(atlassian_license, 0, license_length.value)]

\* _split_license_content(license_content): "LicenseDecodeError" when
\* b64decode raises TypeError, "struct.error" when fewer than 4 bytes were
\* decoded, else the compressed license and the signature
split_license_content(license_content) ==
    LET decoded     == b64decode(utf8_encode(license_content))
        decoded_bytes == decoded.data
        text_length == struct_unpack(Slice(decoded_bytes, 0, 4))
    IN  IF ~decoded.ok
        THEN [raised |-> "LicenseDecodeError", compressed_license |-> <<>>,
              license_signature |-> <<>>]
        ELSE IF ~text_length.ok
        THEN [raised |-> "struct.error", compressed_license |-> <<>>,
              license_signature |-> <<>>]
        ELSE [raised |-> "",
              compressed_license |->
                  Slice(decoded_bytes, 4, 4 + text_length.value),
              license_signature |->
                  Slice(decoded_bytes, Min(4 + text_length.value,
                                           Len(decoded_bytes)),
                        Len(decoded_bytes))]

\* _decompress(compressed_text): the text, or what it raises
decompress(compressed_text) ==
    LET inflated == zlib_decompress(Slice(compressed_text,
                                          Min(Len(DECODER_LICENSE_PREFIX),
                                              Len(compressed_text)),
                                          Len(compressed_text)))
        decoded  == utf8_decode(inflated.data)
    IN  IF inflated.kind = "error"
        THEN [raised |-> "LicenseDecodeError", text |-> <<>>]
        ELSE IF inflated.kind = "unmodelled"
        THEN [raised |-> "unmodelled", text |-> <<>>]
        ELSE IF ~decoded.ok
        THEN [raised |-> "UnicodeDecodeError", text |-> <<>>]
        ELSE [raised |-> "", text |-> decoded.text]

\* _verify_license(compressed_license, license_signature): "True", "False",
\* or "DSAError" when verify_asn1 answers -1
verify_license(public_key_path, compressed_license, license_signature) ==
    LET digest == sha1(compressed_license)
        dsa    == load_pub_key(public_key_path)
        answer == verify_asn1(dsa, digest, license_signature)
    IN  IF answer = -1 THEN "DSAError"
        ELSE IF answer # 0 THEN "True" ELSE "False"

Raised(exception, message, calls, need_verify, public_key_path) ==
    [raised |-> exception, message |-> message, text |-> <<>>,
     verified |-> "None", calls |-> calls, need_verify |-> need_verify,
     public_key_path |-> public_key_path]

\* AtlassianLicenseDecoder(public_key_path).decode(atlassian_license,
\* need_verify): what it returns (raised = "") or raises, and the steps it ran
decode(atlassian_license, need_verify, public_key_path) ==
    LET stripped == remove_whitespaces(atlassian_license)
        content  == get_license_content(stripped)
        split    == split_license_content(content.content)
        verifies == need_verify /\ public_key_path # ""
        verified == IF verifies
                    THEN verify_license(public_key_path,
                                        split.compressed_license,
                                        split.license_signature)
                    ELSE "None"
        text     == decompress(split.compressed_license)
        calls1   == <<"_remove_whitespaces", "_get_license_content">>
        calls2   == Append(calls1, "_split_license_content")
        calls3   == IF verifies THEN Append(calls2, "_verify_license")
                    ELSE calls2
        calls4   == Append(calls3, "_decompress")
    IN  IF atlassian_license = <<>>
        THEN Raised("ValueError", "atlassian_license cannot be None or empty string",
                    <<>>, need_verify, public_key_path)
        ELSE IF ~content.ok
        THEN Raised("LicenseDecodeError", content.message, calls1,
                    need_verify, public_key_path)
        ELSE IF split.raised = "LicenseDecodeError"
        THEN Raised("LicenseDecodeError", "base64-decoding failed", calls2,
                    need_verify, public_key_path)
        ELSE IF split.raised # ""
        THEN Raised(split.raised, "", calls2, need_verify, public_key_path)
        ELSE IF verified = "DSAError"
        THEN Raised("DSAError", "", calls3, need_verify, public_key_path)
        ELSE IF text.raised = "LicenseDecodeError"
        THEN Raised("LicenseDecodeError", "cannot decompress", calls4,
                    need_verify, public_key_path)
        ELSE IF text.raised # ""
        THEN Raised(text.raised, "", calls4, need_verify, public_key_path)
        ELSE [raised |-> "", message |-> "", text |-> text.text,
              verified |-> verified, calls |-> calls4,
              need_verify |-> need_verify,
              public_key_path |-> public_key_path]

(***************************************************************************)
(* The inputs the model draws.                                             *)
(***************************************************************************)
\* the printable ASCII characters in order, repeated: the license text sample
Sample(n) == [i \in 1..n |-> 32 + ((i - 1) % 95)]

\* space, 'X', '~' and e-acute
ShortAlphabet == {32, 88, 126, 233}

\* the sample is cut at every TextStep-th length for the Format-A encoder
TextStep == 10

ShortTexts == SeqsUpTo(ShortAlphabet, MaxShortLen)

EncoderTexts ==
    ShortTexts \cup {Sample(n) : n \in {m \in 1..MaxTextLen : m % TextStep = 0}}

IsPrintableAscii(text) == \A i \in 1..Len(text) : text[i] >= 32 /\ text[i] <= 126

\* byte strings that are not UTF-8, and one that is (e-acute)
ForgedData == {<<255>>, <<195>>, <<65, 169>>, <<195, 169>>}

\* 'X', '0', '2', 'A', space
RawAlphabet == {88, 48, 50, 65, 32}

RawTokens == SeqsUpTo(RawAlphabet, MaxRawLen)

\* '0', '1', '3', '+', 'a'
VersionAlphabet == {48, 49, 51, 43, 97}

VersionTexts == [1..2 -> VersionAlphabet]

\* the ways the decoder is run: with the key the encoder signs with, with
\* the default key of the decoder, without a key, and with -V (no verify)
DecoderRuns ==
    {[need_verify |-> TRUE, public_key_path |-> "calfzhou.pem"],
     [need_verify |-> TRUE, public_key_path |-> "atlassian.pem"],
     [need_verify |-> TRUE, public_key_path |-> ""],
     [need_verify |-> FALSE, public_key_path |-> "atlassian.pem"]}

\* how a byte is changed: to the next value, or to its complement
FlipKinds == {"next", "complement"}

Flip(b, kind) == IF kind = "next" THEN (b + 1) % 256 ELSE 255 - b

\* how the length suffix of a token is rewritten
SuffixKinds ==
    {"upper", "plus", "minus", "zero", "other", "bad_digit", "punctuation"}

upper(text) ==
    [i \in 1..Len(text) |->
        IF text[i] >= 97 /\ text[i] <= 122 THEN text[i] - 32 ELSE text[i]]

Suffix(kind, suffix, pos) ==
    CASE kind = "upper" -> upper(suffix)
      [] kind = "plus" -> <<43>> \o suffix
      [] kind = "minus" -> <<45>> \o suffix
      [] kind = "zero" -> <<48>> \o suffix
      [] kind = "other" -> int2str(pos + 1, ENCODED_LICENSE_LENGTH_BASE)
      [] kind = "bad_digit" -> Append(suffix, 118)
      [] kind = "punctuation" -> Append(suffix, 126)

(***************************************************************************)
(* GliffyLicenseGenerator (gliffy-keygen/generate_license.py).  A value of *)
(* a template variable is an int or a unicode text; the names of the       *)
(* variables and the texts are sequences of code points.                   *)
(***************************************************************************)
PyInteger(n) == [type |-> "int", number |-> n, text |-> <<>>]
PyUnicode(text) == [type |-> "unicode", number |-> 0, text |-> text]

\* '{}'.format(value) and the value substituted for a replacement field
format_value(value) ==
    IF value.type = "int" THEN format_int(value.number) ELSE value.text

\* value > n for an int n in Python 2: ints compare by value, and an object
\* that is not a number is greater than every number
py2_greater(value, n) ==
    IF value.type = "int" THEN value.number > n ELSE TRUE

\* an update that keeps the entries variables has already
update_first_wins(variables, other) ==
    [name \in (DOMAIN variables) \cup (DOMAIN other) |->
        IF name \in DOMAIN variables THEN variables[name] ELSE other[name]]

\* dict.update: the entries of other replace those of variables
update(variables, other) ==
    [name \in (DOMAIN variables) \cup (DOMAIN other) |->
        IF name \in DOMAIN other THEN other[name] ELSE variables[name]]

LEFT_BRACE == 123
RIGHT_BRACE == 125

\* one character of str.format: '{{' and '}}' stand for a brace, '{name}' for
\* the value of the variable name; a name that is not defined raises KeyError
format_step(template, variables, st, i) ==
    LET c == template[i]
    IN  IF st.mode = "text"
        THEN IF c = LEFT_BRACE THEN [st EXCEPT !.mode = "open"]
             ELSE IF c = RIGHT_BRACE THEN [st EXCEPT !.mode = "close"]
             ELSE [st EXCEPT !.text = Append(@, c)]
        ELSE IF st.mode = "open"
        THEN IF c = LEFT_BRACE
             THEN [st EXCEPT !.mode = "text", !.text = Append(@, c)]
             ELSE IF c = RIGHT_BRACE
             THEN [st EXCEPT !.stop = TRUE, !.raised = "IndexError"]
             ELSE [st EXCEPT !.mode = "field", !.name = <<c>>]
        ELSE IF st.mode = "close"
        THEN IF c = RIGHT_BRACE
             THEN [st EXCEPT !.mode = "text", !.text = Append(@, c)]
             ELSE [st EXCEPT !.stop = TRUE, !.raised = "ValueError"]
        ELSE IF c = RIGHT_BRACE
             THEN IF st.name \in DOMAIN variables
                  THEN [st EXCEPT !.mode = "text", !.name = <<>>,
                           !.text = @ \o format_value(variables[st.name])]
                  ELSE [st EXCEPT !.stop = TRUE, !.raised = "KeyError"]
             ELSE IF c = LEFT_BRACE
             THEN [st EXCEPT !.stop = TRUE, !.raised = "ValueError"]
             ELSE [st EXCEPT !.name = Append(@, c)]

\* template.format(**variables): the text, or the exception raised and the
\* name of the variable that is missing
format(template, variables) ==
    LET step(st, i) == format_step(template, variables, st, i)
        end == FoldRange(step, [stop |-> FALSE, raised |-> "", mode |-> "text",
                                text |-> <<>>, name |-> <<>>],
                         1, Len(template))
    IN  IF end.stop THEN [raised |-> end.raised, text |-> <<>>, name |-> end.name]
        ELSE IF end.mode # "text"
        THEN [raised |-> "ValueError", text |-> <<>>, name |-> <<>>]
        ELSE [raised |-> "", text |-> end.text, name |-> <<>>]

RECURSIVE lstrip(_)
\* text.lstrip()
lstrip(text) ==
    IF text # <<>> /\ isspace(Head(text)) THEN lstrip(Tail(text)) ELSE text

\* text.strip()
strip(text) == Reverse(lstrip(Reverse(lstrip(text))))

\* the names of the template variables
N_license_version ==
    <<108, 105, 99, 101, 110, 115, 101, 95, 118, 101, 114, 115, 105, 111,
      110>>
N_license_key ==
    <<108, 105, 99, 101, 110, 115, 101, 95, 107, 101, 121>>
N_name ==
    <<110, 97, 109, 101>>
N_organisation ==
    <<111, 114, 103, 97, 110, 105, 115, 97, 116, 105, 111, 110>>
N_license_type ==
    <<108, 105, 99, 101, 110, 115, 101, 95, 116, 121, 112, 101>>
N_quantity_users ==
    <<113, 117, 97, 110, 116, 105, 116, 121, 95, 117, 115, 101, 114, 115>>
N_quantity_nodes ==
    <<113, 117, 97, 110, 116, 105, 116, 121, 95, 110, 111, 100, 101, 115>>
N_expiration_date ==
    <<101, 120, 112, 105, 114, 97, 116, 105, 111, 110, 95, 100, 97, 116,
      101>>
N_node_part ==
    <<110, 111, 100, 101, 95, 112, 97, 114, 116>>

\* 'jira'
PRODUCT_JIRA ==
    <<106, 105, 114, 97>>
\* 'confluence'
PRODUCT_CONFLUENCE ==
    <<99, 111, 110, 102, 108, 117, 101, 110, 99, 101>>
\* 'Gliffy JIRA Plugin'
GLIFFY_JIRA_PLUGIN ==
    <<71, 108, 105, 102, 102, 121, 32, 74, 73, 82, 65, 32, 80, 108, 117,
      103, 105, 110>>
\* 'Gliffy Confluence Plugin'
GLIFFY_CONFLUENCE_PLUGIN ==
    <<71, 108, 105, 102, 102, 121, 32, 67, 111, 110, 102, 108, 117, 101,
      110, 99, 101, 32, 80, 108, 117, 103, 105, 110>>

KNOWN_PRODUCTS ==
    [product \in {PRODUCT_JIRA, PRODUCT_CONFLUENCE} |->
        IF product = PRODUCT_JIRA THEN GLIFFY_JIRA_PLUGIN
        ELSE GLIFFY_CONFLUENCE_PLUGIN]

\* '{{"licenseVersion":{license_version},"licenseKey":"{license_key}",
\*  "licensedSystem":"{name}","licensedTo":"{organisation}",
\*  "licenseType":"{license_type}","quantityUsers":{quantity_users},
\*  "quantityNodes":{quantity_nodes},"expirationDate":"{expiration_date}"}}'
LICENSE_TEMPLATE ==
    <<123, 123, 34, 108, 105, 99, 101, 110, 115, 101, 86, 101, 114, 115,
      105, 111, 110, 34, 58, 123, 108, 105, 99, 101, 110, 115, 101, 95,
      118, 101, 114, 115, 105, 111, 110, 125, 44, 34, 108, 105, 99, 101,
      110, 115, 101, 75, 101, 121, 34, 58, 34, 123, 108, 105, 99, 101, 110,
      115, 101, 95, 107, 101, 121, 125, 34, 44, 34, 108, 105, 99, 101, 110,
      115, 101, 100, 83, 121, 115, 116, 101, 109, 34, 58, 34, 123, 110, 97,
      109, 101, 125, 34, 44, 34, 108, 105, 99, 101, 110, 115, 101, 100, 84,
      111, 34, 58, 34, 123, 111, 114, 103, 97, 110, 105, 115, 97, 116, 105,
      111, 110, 125, 34, 44, 34, 108, 105, 99, 101, 110, 115, 101, 84, 121,
      112, 101, 34, 58, 34, 123, 108, 105, 99, 101, 110, 115, 101, 95, 116,
      121, 112, 101, 125, 34, 44, 34, 113, 117, 97, 110, 116, 105, 116,
      121, 85, 115, 101, 114, 115, 34, 58, 123, 113, 117, 97, 110, 116,
      105, 116, 121, 95, 117, 115, 101, 114, 115, 125, 44, 34, 113, 117,
      97, 110, 116, 105, 116, 121, 78, 111, 100, 101, 115, 34, 58, 123,
      113, 117, 97, 110, 116, 105, 116, 121, 95, 110, 111, 100, 101, 115,
      125, 44, 34, 101, 120, 112, 105, 114, 97, 116, 105, 111, 110, 68, 97,
      116, 101, 34, 58, 34, 123, 101, 120, 112, 105, 114, 97, 116, 105,
      111, 110, 95, 100, 97, 116, 101, 125, 34, 125, 125>>
\* 'COMMERCIAL_ENTERPRISE'
LICENSE_TYPE ==
    <<67, 79, 77, 77, 69, 82, 67, 73, 65, 76, 95, 69, 78, 84, 69, 82, 80,
      82, 73, 83, 69>>
LICENSE_VERSION == 2
QUANTITY_USERS == -1
QUANTITY_NODES == -1
\* '12/31/32'
EXPIRATION_DATE ==
    <<49, 50, 47, 51, 49, 47, 51, 50>>
GLIFFY_ENCODED_LICENSE_LINE_LENGTH == 76

\* the first key template with name moved to the front:
\* '{name}{quantity_users}{license_type}{organisation}{expiration_date}{node_part}'
KEY_TEMPLATE_1_name_first ==
    <<123, 110, 97, 109, 101, 125, 123, 113, 117, 97, 110, 116, 105, 116,
      121, 95, 117, 115, 101, 114, 115, 125, 123, 108, 105, 99, 101, 110,
      115, 101, 95, 116, 121, 112, 101, 125, 123, 111, 114, 103, 97, 110,
      105, 115, 97, 116, 105, 111, 110, 125, 123, 101, 120, 112, 105, 114,
      97, 116, 105, 111, 110, 95, 100, 97, 116, 101, 125, 123, 110, 111,
      100, 101, 95, 112, 97, 114, 116, 125>>
\* '{quantity_users}{license_type}{name}{organisation}{expiration_date}{node_part}'
KEY_TEMPLATE_1 ==
    <<123, 113, 117, 97, 110, 116, 105, 116, 121, 95, 117, 115, 101, 114,
      115, 125, 123, 108, 105, 99, 101, 110, 115, 101, 95, 116, 121, 112,
      101, 125, 123, 110, 97, 109, 101, 125, 123, 111, 114, 103, 97, 110,
      105, 115, 97, 116, 105, 111, 110, 125, 123, 101, 120, 112, 105, 114,
      97, 116, 105, 111, 110, 95, 100, 97, 116, 101, 125, 123, 110, 111,
      100, 101, 95, 112, 97, 114, 116, 125>>
\* '{organisation}{quantity_users}{node_part}{license_type}{expiration_date}{name}'
KEY_TEMPLATE_2 ==
    <<123, 111, 114, 103, 97, 110, 105, 115, 97, 116, 105, 111, 110, 125,
      123, 113, 117, 97, 110, 116, 105, 116, 121, 95, 117, 115, 101, 114,
      115, 125, 123, 110, 111, 100, 101, 95, 112, 97, 114, 116, 125, 123,
      108, 105, 99, 101, 110, 115, 101, 95, 116, 121, 112, 101, 125, 123,
      101, 120, 112, 105, 114, 97, 116, 105, 111, 110, 95, 100, 97, 116,
      101, 125, 123, 110, 97, 109, 101, 125>>
\* '{node_part}{organisation}{name}{quantity_users}{license_type}{expiration_date}'
KEY_TEMPLATE_3 ==
    <<123, 110, 111, 100, 101, 95, 112, 97, 114, 116, 125, 123, 111, 114,
      103, 97, 110, 105, 115, 97, 116, 105, 111, 110, 125, 123, 110, 97,
      109, 101, 125, 123, 113, 117, 97, 110, 116, 105, 116, 121, 95, 117,
      115, 101, 114, 115, 125, 123, 108, 105, 99, 101, 110, 115, 101, 95,
      116, 121, 112, 101, 125, 123, 101, 120, 112, 105, 114, 97, 116, 105,
      111, 110, 95, 100, 97, 116, 101, 125>>
\* '{name}{expiration_date}{node_part}{organisation}{license_type}{quantity_users}'
KEY_TEMPLATE_4 ==
    <<123, 110, 97, 109, 101, 125, 123, 101, 120, 112, 105, 114, 97, 116,
      105, 111, 110, 95, 100, 97, 116, 101, 125, 123, 110, 111, 100, 101,
      95, 112, 97, 114, 116, 125, 123, 111, 114, 103, 97, 110, 105, 115,
      97, 116, 105, 111, 110, 125, 123, 108, 105, 99, 101, 110, 115, 101,
      95, 116, 121, 112, 101, 125, 123, 113, 117, 97, 110, 116, 105, 116,
      121, 95, 117, 115, 101, 114, 115, 125>>

key_templates ==
    <<KEY_TEMPLATE_1, KEY_TEMPLATE_2, KEY_TEMPLATE_3, KEY_TEMPLATE_4>>

(***************************************************************************)
(* rs_hash.  h is a 64-bit and a a 32-bit unsigned integer; they are kept  *)
(* as little-endian sequences of 8-bit limbs, 8 limbs for h and 4 for a.   *)
(***************************************************************************)
LIMB == 256

RECURSIVE Limbs(_, _)
\* the width low limbs of a natural number
Limbs(n, width) ==
    IF width = 0 THEN <<>> ELSE <<n % LIMB>> \o Limbs(n \div LIMB, width - 1)

RECURSIVE LimbsValue(_)
\* the number a sequence of limbs stands for
LimbsValue(limbs) ==
    IF limbs = <<>> THEN 0 ELSE Head(limbs) + (LIMB * LimbsValue(Tail(limbs)))

RECURSIVE MulColumn(_, _, _, _)
\* the sum of x[j] * y[i - j + 1] over the limbs j..i of x
MulColumn(x, y, i, j) ==
    IF j > i \/ j > Len(x) THEN 0
    ELSE (IF (i - j) + 1 <= Len(y) THEN x[j] * y[(i - j) + 1] ELSE 0)
             + MulColumn(x, y, i, j + 1)

RECURSIVE MulCarry(_, _, _, _, _)
MulCarry(x, y, width, i, carry) ==
    IF i > width THEN <<>>
    ELSE LET t == MulColumn(x, y, i, 1) + carry
         IN  <<t % LIMB>> \o MulCarry(x, y, width, i + 1, t \div LIMB)

\* (x * y) & ((1 << (8 * width)) - 1)
mul_mask(x, y, width) == MulCarry(x, y, width, 1, 0)

RECURSIVE AddCarry(_, _, _)
AddCarry(x, i, carry) ==
    IF i > Len(x) THEN <<>>
    ELSE <<(x[i] + carry) % LIMB>> \o AddCarry(x, i + 1, (x[i] + carry) \div LIMB)

\* (x + n) & ((1 << (8 * Len(x))) - 1) for a natural number n
add_mask(x, n) == AddCarry(x, 1, n)

RS_A == 63689
RS_B == 378551

\* the body of the loop with the two updates the other way round: a is
\* multiplied before h is
rs_hash_step_a_first(text, st, i) ==
    LET a == mul_mask(st.a, Limbs(RS_B, 4), 4)
    IN  [st EXCEPT !.h = add_mask(mul_mask(st.h, a, 8), text[i]), !.a = a]

\* the body of the loop of rs_hash for the character text[i]
rs_hash_step(text, st, i) ==
    [st EXCEPT !.h = add_mask(mul_mask(st.h, st.a, 8), text[i]),
               !.a = mul_mask(st.a, Limbs(RS_B, 4), 4)]

\* the loop of rs_hash: h and a after the last character
rs_hash_loop(text) ==
    LET step(st, i) == rs_hash_step(text, st, i)
    IN  FoldRange(step, [stop |-> FALSE, h |-> Limbs(0, 8), a |-> Limbs(RS_A, 4)],
                  1, Len(text))

\* h & int32_mask, the low 31 bits of h
int32_masked(h) == LimbsValue(<<h[1], h[2], h[3], h[4] % 128>>)

rs_hash(text) == format_int(int32_masked(rs_hash_loop(text).h))

RECURSIVE join_with(_, _)
\* separator.join(parts)
join_with(separator, parts) ==
    IF parts = <<>> THEN <<>>
    ELSE IF Len(parts) = 1 THEN parts[1]
    ELSE parts[1] \o separator \o join_with(separator, Tail(parts))

HYPHEN == 45

\* the node_part of _calculate_license_key (lines 121-122)
node_part(variables) ==
    LET nodes_count == IF N_quantity_nodes \in DOMAIN variables
                       THEN variables[N_quantity_nodes] ELSE PyInteger(0)
    IN  IF py2_greater(nodes_count, 1) THEN format_value(nodes_count) ELSE <<>>

\* _calculate_license_key(variables): the key, or the KeyError of the first
\* key template that names a variable that is not defined; the call
\* t.format(node_part=node_part, **variables) of line 124 raises TypeError
\* (multiple values for keyword argument 'node_part') before anything is
\* formatted when variables defines node_part itself
calculate_license_key(variables) ==
    IF N_node_part \in DOMAIN variables
    THEN [raised |-> "TypeError", key |-> <<>>, name |-> N_node_part]
    ELSE
    LET keywords == update(variables,
                           [name \in {N_node_part} |-> PyUnicode(node_part(variables))])
        formatted == [t \in 1..Len(key_templates) |->
                         format(key_templates[t], keywords)]
        failed == {t \in 1..Len(key_templates) : formatted[t].raised # ""}
    IN  IF failed # {}
        THEN LET first == CHOOSE t \in failed : \A u \in failed : t <= u
             IN  [raised |-> formatted[first].raised, key |-> <<>>,
                  name |-> formatted[first].name]
        ELSE [raised |-> "", name |-> <<>>,
              key |-> join_with(<<HYPHEN>>,
                         [t \in 1..Len(key_templates) |-> rs_hash(formatted[t].text)])]

\* generate_default_variables()
generate_default_variables ==
    [name \in {N_license_version, N_license_type, N_quantity_users,
               N_quantity_nodes, N_expiration_date} |->
        IF name = N_license_version THEN PyInteger(LICENSE_VERSION)
        ELSE IF name = N_license_type THEN PyUnicode(LICENSE_TYPE)
        ELSE IF name = N_quantity_users THEN PyInteger(QUANTITY_USERS)
        ELSE IF name = N_quantity_nodes THEN PyInteger(QUANTITY_NODES)
        ELSE PyUnicode(EXPIRATION_DATE)]

NoVariables == [name \in {} |-> PyInteger(0)]
NoTemplate == <<>>

\* the arguments of a call of generate
Arguments(product, organisation, custom_variables, custom_template) ==
    [product |-> product, organisation |-> organisation,
     custom_variables |-> custom_variables, custom_template |-> custom_template]

\* what generate returns or raises, with the arguments it was called with
Generated(raised, message, text, license_key, template_variables, call) ==
    [raised |-> raised, message |-> message, text |-> text,
     license_key |-> license_key, template_variables |-> template_variables,
     product |-> call.product, organisation |-> call.organisation,
     custom_variables |-> call.custom_variables,
     custom_template |-> call.custom_template]

\* GliffyLicenseGenerator().generate(product, organisation, custom_variables,
\* custom_template); None is NoVariables and NoTemplate
generate(product, organisation, custom_variables, custom_template) ==
    LET self_template == LICENSE_TEMPLATE
        template == strip(IF self_template # <<>> THEN self_template
                          ELSE custom_template)
        defaults == generate_default_variables
        named == IF product \in DOMAIN KNOWN_PRODUCTS
                 THEN update(defaults, [name \in {N_name} |->
                                           PyUnicode(KNOWN_PRODUCTS[product])])
                 ELSE defaults
        registered == IF organisation # <<>>
                      THEN update(named, [name \in {N_organisation} |->
                                             PyUnicode(organisation)])
                      ELSE named
        merged == update(registered, custom_variables)
        license_key == calculate_license_key(merged)
        template_variables ==
            update(merged, [name \in {N_license_key} |-> PyUnicode(license_key.key)])
        gliffy_license == format(template, template_variables)
        result(raised, message, text, key, variables) ==
            Generated(raised, message, text, key, variables,
                      Arguments(product, organisation, custom_variables,
                                custom_template))
    IN  IF template = <<>>
        THEN result("LicenseGenerationError", "no license template defined",
                    <<>>, <<>>, NoVariables)
        ELSE IF license_key.raised = "KeyError"
        THEN result("LicenseGenerationError",
                    "missing required template variable to generate license key",
                    <<>>, <<>>, merged)
        ELSE IF license_key.raised # ""
        THEN result(license_key.raised, "", <<>>, <<>>, merged)
        ELSE IF gliffy_license.raised = "KeyError"
        THEN result("LicenseGenerationError",
                    "missing required template variable to generate license content",
                    <<>>, license_key.key, template_variables)
        ELSE IF gliffy_license.raised # ""
        THEN result(gliffy_license.raised, "", <<>>, license_key.key,
                    template_variables)
        ELSE result("", "", gliffy_license.text, license_key.key,
                    template_variables)

\* GliffyLicenseGenerator.encode, line 93: the base64 text before it is wrapped
gliffy_base64(license_text) == b64encode(utf8_encode(license_text))

\* GliffyLicenseGenerator.encode(license_text)
gliffy_encode(license_text) ==
    join_lines(textwrap_wrap(gliffy_base64(license_text),
                             GLIFFY_ENCODED_LICENSE_LINE_LENGTH)) \o <<NEWLINE>>

(***************************************************************************)
(* The inputs of the Gliffy generator.                                     *)
(***************************************************************************)
MaxNodes == 3

\* 'custom'
PRODUCT_CUSTOM ==
    <<99, 117, 115, 116, 111, 109>>

Products == {PRODUCT_JIRA, PRODUCT_CONFLUENCE, PRODUCT_CUSTOM}

\* '', 'Acme' and 'Bob'
Organisations == {<<>>, <<65, 99, 109, 101>>, <<66, 111, 98>>}

Only(name, value) == [n \in {name} |-> value]

\* the -v options: every value given on the command line is a text; a caller
\* of generate may pass integers
CustomVariables ==
    {NoVariables}
        \cup {Only(N_quantity_nodes, PyInteger(n)) : n \in 0..MaxNodes}
        \cup {Only(N_quantity_nodes, PyUnicode(<<48 + n>>)) : n \in 0..MaxNodes}
        \cup {Only(N_name, PyUnicode(<<66, 111, 98>>)),
              Only(N_organisation, PyUnicode(<<90, 101, 100>>)),
              Only(N_license_key, PyUnicode(<<75>>)),
              Only(N_node_part, PyUnicode(<<57>>))}

\* '{name}:{license_key}'
CUSTOM_TEMPLATE ==
    <<123, 110, 97, 109, 101, 125, 58, 123, 108, 105, 99, 101, 110, 115, 101,
      95, 107, 101, 121, 125>>

CustomTemplates == {NoTemplate, CUSTOM_TEMPLATE}

\* the mappings _calculate_license_key is called with directly: the five
\* fields of a license, without quantity_nodes or with a count, and with a
\* short name and organisation
KeyMappings ==
    LET fields == [name \in {N_quantity_users, N_license_type, N_name,
                             N_organisation, N_expiration_date} |->
                      IF name = N_quantity_users THEN PyInteger(QUANTITY_USERS)
                      ELSE IF name = N_license_type THEN PyUnicode(LICENSE_TYPE)
                      ELSE IF name = N_name THEN PyUnicode(GLIFFY_JIRA_PLUGIN)
                      ELSE IF name = N_organisation
                      THEN PyUnicode(<<65, 99, 109, 101>>)
                      ELSE PyUnicode(EXPIRATION_DATE)]
        \* name 'A' with organisation 'AA', and the other way round
        short == update(update(fields, Only(N_name, PyUnicode(<<65>>))),
                        Only(N_organisation, PyUnicode(<<65, 65>>)))
        long == update(update(fields, Only(N_name, PyUnicode(<<65, 65>>))),
                       Only(N_organisation, PyUnicode(<<65>>)))
    IN  {fields, short, long}
            \cup {update(fields, Only(N_quantity_nodes, PyInteger(n))) :
                      n \in 1..MaxNodes}

\* the texts handed to rs_hash directly: the short texts, the samples of
\* every length up to MaxHashLen and texts of the largest code units
MaxHashLen == 8

HashTexts ==
    ShortTexts \cup {Sample(n) : n \in 0..MaxHashLen}
        \cup {[i \in 1..n |-> 65535] : n \in 1..MaxHashLen}

\* the texts handed to GliffyLicenseGenerator.encode directly
GliffyTexts == {Sample(n) : n \in 0..MaxTextLen}

(***************************************************************************)
(* The Atlassian license generator: AtlanssianLicenseGenerator fills the   *)
(* template of a product's yaml file.                                      *)
(***************************************************************************)
\* dict(pairs): the mapping of a set of (name, value) pairs
dict(pairs) ==
    [name \in {pair[1] : pair \in pairs} |->
        (CHOOSE pair \in pairs : pair[1] = name)[2]]

\* 'template', 'server_id' and 'description'
N_template == <<116, 101, 109, 112, 108, 97, 116, 101>>
N_server_id == <<115, 101, 114, 118, 101, 114, 95, 105, 100>>
N_description ==
    <<100, 101, 115, 99, 114, 105, 112, 116, 105, 111, 110>>

\* AtlanssianLicenseGenerator.generate_default_variables() at the time now
\* (now.date is now.strftime('%Y-%m-%d'), now.ctime is now.ctime())
atlassian_generate_default_variables(now) ==
    dict({
         \* 'license_edition'
         <<<<108, 105, 99, 101, 110, 115, 101, 95, 101, 100, 105, 116, 105,
            111, 110>>, PyUnicode(<<69, 78, 84, 69, 82, 80, 82, 73, 83,
            69>>)>>,
         \* 'license_type'
         <<<<108, 105, 99, 101, 110, 115, 101, 95, 116, 121, 112, 101>>,
            PyUnicode(<<67, 79, 77, 77, 69, 82, 67, 73, 65, 76>>)>>,
         \* 'number_of_users'
         <<<<110, 117, 109, 98, 101, 114, 95, 111, 102, 95, 117, 115, 101,
            114, 115>>, PyInteger(-1)>>,
         \* 'purchase_date'
         <<<<112, 117, 114, 99, 104, 97, 115, 101, 95, 100, 97, 116, 101>>,
            PyUnicode(now.date)>>,
         \* 'creation_date'
         <<<<99, 114, 101, 97, 116, 105, 111, 110, 95, 100, 97, 116, 101>>,
            PyUnicode(now.date)>>,
         \* 'maintenance_expiry_date'
         <<<<109, 97, 105, 110, 116, 101, 110, 97, 110, 99, 101, 95, 101,
            120, 112, 105, 114, 121, 95, 100, 97, 116, 101>>,
            PyUnicode(<<50, 48, 57, 57, 45, 49, 50, 45, 51, 49>>)>>,
         \* 'license_expiry_date'
         <<<<108, 105, 99, 101, 110, 115, 101, 95, 101, 120, 112, 105, 114,
            121, 95, 100, 97, 116, 101>>, PyUnicode(<<50, 48, 57, 57, 45,
            49, 50, 45, 51, 49>>)>>,
         \* 'sen'
         <<<<115, 101, 110>>, PyUnicode(<<83, 69, 78, 45, 76, 48, 48, 48,
            48, 48, 48, 48>>)>>,
         \* 'evaluation'
         <<<<101, 118, 97, 108, 117, 97, 116, 105, 111, 110>>,
            PyUnicode(<<102, 97, 108, 115, 101>>)>>,
         \* 'active'
         <<<<97, 99, 116, 105, 118, 101>>, PyUnicode(<<116, 114, 117,
            101>>)>>,
         \* 'license_version'
         <<<<108, 105, 99, 101, 110, 115, 101, 95, 118, 101, 114, 115, 105,
            111, 110>>, PyInteger(2)>>,
         \* 'number_of_cluster_nodes'
         <<<<110, 117, 109, 98, 101, 114, 95, 111, 102, 95, 99, 108, 117,
            115, 116, 101, 114, 95, 110, 111, 100, 101, 115>>,
            PyInteger(0)>>,
         \* 'enterprise'
         <<<<101, 110, 116, 101, 114, 112, 114, 105, 115, 101>>,
            PyUnicode(<<116, 114, 117, 101>>)>>,
         \* 'starter'
         <<<<115, 116, 97, 114, 116, 101, 114>>, PyUnicode(<<102, 97, 108,
            115, 101>>)>>,
         \* 'contact_email'
         <<<<99, 111, 110, 116, 97, 99, 116, 95, 101, 109, 97, 105, 108>>,
            PyUnicode(<<110, 111, 114, 101, 112, 108, 121, 64, 102, 111,
            111, 98, 97, 114, 46, 99, 111, 109>>)>>,
         \* 'created_at'
         <<<<99, 114, 101, 97, 116, 101, 100, 95, 97, 116>>,
            PyUnicode(now.ctime)>>})

\* what AtlanssianLicenseGenerator.generate returns or raises, with the
\* arguments it was called with
AtlassianGenerated(raised, message, text, template_variables, call) ==
    [raised |-> raised, message |-> message, text |-> text,
     template_variables |-> template_variables, template |-> call.template,
     organisation |-> call.organisation, server_id |-> call.server_id,
     custom_variables |-> call.custom_variables]

\* AtlanssianLicenseGenerator(template_file_path).generate(organisation,
\* server_id, custom_variables), with product_info what yaml.load made of the
\* file; None is '' for server_id and NoVariables for custom_variables
atlassian_generate(product_info, now, organisation, server_id, custom_variables) ==
    LET self_template == product_info[N_template].text
        defaults == atlassian_generate_default_variables(now)
        informed == update(defaults, product_info)
        registered == IF organisation # <<>>
                      THEN update(informed,
                                  Only(N_organisation, PyUnicode(organisation)))
                      ELSE informed
        served == IF server_id # <<>>
                  THEN update(registered,
                              Only(N_server_id, PyUnicode(server_id)))
                  ELSE registered
        template_variables == update(served, custom_variables)
        atlassian_license == format(self_template, template_variables)
        call == [template |-> self_template, organisation |-> organisation,
                 server_id |-> server_id,
                 custom_variables |-> custom_variables]
    IN  IF atlassian_license.raised = "KeyError"
        THEN AtlassianGenerated("LicenseGenerationError",
                                "missing required template variable", <<>>,
                                template_variables, call)
        ELSE IF atlassian_license.raised # ""
        THEN AtlassianGenerated(atlassian_license.raised, "", <<>>,
                                template_variables, call)
        ELSE AtlassianGenerated("", "", atlassian_license.text,
                                template_variables, call)

\* the product files: a template that names the organisation, the server id
\* and a default; one that names a description the file gives; one that names
\* a description the file does not give
ProductInfos ==
    {dict({<<N_template,
             PyUnicode(<<79, 61, 123, 111, 114, 103, 97, 110, 105, 115, 97,
                116, 105, 111, 110, 125, 59, 83, 61, 123, 115, 101, 114,
                118, 101, 114, 95, 105, 100, 125, 59, 85, 61, 123, 110, 117,
                109, 98, 101, 114, 95, 111, 102, 95, 117, 115, 101, 114,
                115, 125>>)>>}),
     dict({<<N_template,
             PyUnicode(<<68, 61, 123, 100, 101, 115, 99, 114, 105, 112, 116,
                105, 111, 110, 125, 59, 69, 61, 123, 108, 105, 99, 101, 110,
                115, 101, 95, 101, 100, 105, 116, 105, 111, 110, 125>>)>>,
           <<N_description, PyUnicode(<<74, 73, 82, 65>>)>>}),
     dict({<<N_template,
             PyUnicode(<<68, 61, 123, 100, 101, 115, 99, 114, 105, 112, 116,
                105, 111, 110, 125, 59, 79, 61, 123, 111, 114, 103, 97, 110,
                105, 115, 97, 116, 105, 111, 110, 125>>)>>})}

\* the time of the call: 2026-11-02
Nows ==
    {[date |-> <<50, 48, 50, 54, 45, 49, 49, 45, 48, 50>>,
      ctime |-> <<77, 111, 110, 32, 78, 111, 118, 32, 32, 50, 32, 48, 54,
          58, 48, 48, 58, 48, 48, 32, 50, 48, 50, 54>>]}

\* no server id, and 'AB-12'
ServerIds == {<<>>, <<65, 66, 45, 49, 50>>}

\* the -v options of the Atlassian tool
AtlassianVariables ==
    {NoVariables,
     Only(N_server_id, PyUnicode(<<90, 90, 45, 57, 57>>)),
     Only(N_description, PyUnicode(<<87, 105, 107, 105>>)),
     Only(N_organisation, PyUnicode(<<90, 101, 100>>))}

(***************************************************************************)
(* The state: one run of a tool.                                           *)
(***************************************************************************)
VARIABLES
    pc,            \* "idle", "encoded", "received", "decoded", "generated",
                   \* "keyed", "gliffy_encoded", "atlassian_generated",
                   \* "hashing", "hashed"
    license_text,  \* the text handed to encode
    nonce,         \* the secret k sign_asn1 drew for it (0: none)
    unwrapped,     \* the token before it is wrapped into lines
    wire,          \* the token: what encode returned, or what was received
    origin,        \* how the token came to be
    result,        \* what decode returned or raised
    gliffy,        \* what generate or _calculate_license_key returned or raised
    atlassian,     \* what AtlanssianLicenseGenerator.generate returned or raised
    rs             \* the call of rs_hash: its text, the number i of characters
                   \* the loop has consumed, h, a and what it returned

vars ==
    <<pc, license_text, nonce, unwrapped, wire, origin, result, gliffy,
      atlassian, rs>>

NoResult == [raised |-> "none", message |-> "", text |-> <<>>,
             verified |-> "None", calls |-> <<>>, need_verify |-> FALSE,
             public_key_path |-> ""]

NotGenerated ==
    Generated("none", "", <<>>, <<>>, NoVariables,
              Arguments(<<>>, <<>>, NoVariables, NoTemplate))

NoLicense ==
    AtlassianGenerated("none", "", <<>>, NoVariables,
                       [template |-> <<>>, organisation |-> <<>>,
                        server_id |-> <<>>, custom_variables |-> NoVariables])

NotHashed == [text |-> <<>>, i |-> 0, h |-> <<>>, a |-> <<>>, result |-> <<>>]

Init ==
    /\ pc = "idle"
    /\ license_text = <<>>
    /\ nonce = 0
    /\ unwrapped = <<>>
    /\ wire = <<>>
    /\ origin = "none"
    /\ result = NoResult
    /\ gliffy = NotGenerated
    /\ atlassian = NoLicense
    /\ rs = NotHashed

\* the whitespace-stripped token on the wire, the index of its separator and
\* the blob its payload decodes to
Stripped == remove_whitespaces(wire)
SeparatorPos == rfind(Stripped, SEPARATOR)
WireBlob == b64decode(Slice(Stripped, 0, SeparatorPos)).data
WireLength == struct_unpack(Slice(WireBlob, 0, 4)).value

\* AtlassianLicenseEncoder("calfzhou.pem").encode(text)
Encode ==
    /\ pc = "idle"
    /\ \E text \in EncoderTexts, k \in 1..MaxNonce :
        /\ usable_secret(sha1(utf8_encode(LICENSE_PREFIX)
                              \o zlib_compress(utf8_encode(text))), k)
        /\ license_text' = text
        /\ nonce' = k
        /\ unwrapped' = encoded_license(b64encode(license_blob(text, k)))
        /\ wire' = encode(text, k)
    /\ pc' = "encoded"
    /\ origin' = "encode"
    /\ UNCHANGED <<result, gliffy, atlassian, rs>>

\* somebody builds a token the way encode does from bytes that need not be
\* UTF-8, signed with the same key
Forge ==
    /\ pc = "idle"
    /\ \E data \in ForgedData, k \in 1..MaxNonce :
        LET license_bytes == utf8_encode(LICENSE_PREFIX) \o zlib_compress(data)
        IN  /\ usable_secret(sha1(license_bytes), k)
            /\ nonce' = k
            /\ unwrapped' = encoded_license(b64encode(
                                struct_pack(Len(license_bytes)) \o license_bytes
                                    \o sign_asn1(sha1(license_bytes), k)))
    /\ wire' = wrapped_license(unwrapped')
    /\ pc' = "encoded"
    /\ origin' = "forge"
    /\ UNCHANGED <<license_text, result, gliffy, atlassian, rs>>

\* a byte of the signature part of the blob (offset >= 4 + L) is changed and
\* the blob is encoded again into a token with its own length suffix
TamperSignature ==
    /\ pc = "encoded" /\ origin = "encode"
    /\ LET blob == WireBlob
           first == 4 + WireLength
       IN  \E i \in 1..(Len(blob) - first), kind \in FlipKinds :
               unwrapped' = encoded_license(b64encode(
                                [blob EXCEPT ![first + i] = Flip(@, kind)]))
    /\ wire' = wrapped_license(unwrapped')
    /\ origin' = "tamper_signature"
    /\ UNCHANGED <<pc, license_text, nonce, result, gliffy,
                 atlassian, rs>>

\* the last byte of the compressed license (of its Adler-32) is changed
TamperPayload ==
    /\ pc = "encoded" /\ origin = "encode"
    /\ LET blob == WireBlob
           last == 4 + WireLength
       IN  \E kind \in FlipKinds :
               unwrapped' = encoded_license(b64encode(
                                [blob EXCEPT ![last] = Flip(@, kind)]))
    /\ wire' = wrapped_license(unwrapped')
    /\ origin' = "tamper_payload"
    /\ UNCHANGED <<pc, license_text, nonce, result, gliffy,
                 atlassian, rs>>

\* the two characters after the separator are replaced
TamperVersion ==
    /\ pc = "encoded" /\ origin = "encode"
    /\ LET token == Stripped
           pos == SeparatorPos
       IN  \E version_text \in VersionTexts :
               unwrapped' = Slice(token, 0, pos + 1) \o version_text
                                \o Slice(token, pos + 3, Len(token))
    /\ unwrapped' # unwrapped
    /\ wire' = wrapped_license(unwrapped')
    /\ origin' = "tamper_version"
    /\ UNCHANGED <<pc, license_text, nonce, result, gliffy,
                 atlassian, rs>>

\* the length suffix after the version is rewritten
TamperLength ==
    /\ pc = "encoded" /\ origin = "encode"
    /\ LET token == Stripped
           pos == SeparatorPos
       IN  \E kind \in SuffixKinds :
               unwrapped' = Slice(token, 0, pos + 3)
                                \o Suffix(kind, Slice(token, pos + 3, Len(token)),
                                          pos)
    /\ unwrapped' # unwrapped
    /\ wire' = wrapped_license(unwrapped')
    /\ origin' = "tamper_length"
    /\ UNCHANGED <<pc, license_text, nonce, result, gliffy,
                 atlassian, rs>>

\* a text from outside is handed to the decoder
Receive ==
    /\ pc = "idle"
    /\ \E raw \in RawTokens : wire' = raw
    /\ pc' = "received"
    /\ origin' = "raw"
    /\ UNCHANGED <<license_text, nonce, unwrapped, result, gliffy, atlassian,
                   rs>>

\* AtlassianLicenseDecoder(public_key_path).decode(wire, need_verify)
Decode ==
    /\ pc \in {"encoded", "received"}
    /\ \E run \in DecoderRuns :
           result' = decode(wire, run.need_verify, run.public_key_path)
    /\ pc' = "decoded"
    /\ UNCHANGED <<license_text, nonce, unwrapped, wire, origin, gliffy,
                 atlassian, rs>>

\* GliffyLicenseGenerator().generate(product, organisation, custom_variables,
\* custom_template)
Generate ==
    /\ pc = "idle"
    /\ \E product \in Products, organisation \in Organisations,
          custom_variables \in CustomVariables,
          custom_template \in CustomTemplates :
           gliffy' = generate(product, organisation, custom_variables,
                              custom_template)
    /\ pc' = "generated"
    /\ origin' = "generate"
    /\ UNCHANGED <<license_text, nonce, unwrapped, wire, result, atlassian, rs>>

\* GliffyLicenseGenerator._calculate_license_key(variables)
CalculateLicenseKey ==
    /\ pc = "idle"
    /\ \E variables \in KeyMappings :
           LET license_key == calculate_license_key(variables)
           IN  gliffy' = Generated(license_key.raised, "", <<>>, license_key.key,
                                   variables,
                                   Arguments(<<>>, <<>>, NoVariables,
                                             NoTemplate))
    /\ pc' = "keyed"
    /\ origin' = "calculate_license_key"
    /\ UNCHANGED <<license_text, nonce, unwrapped, wire, result, atlassian, rs>>

\* GliffyLicenseGenerator().encode(text): of a text of the caller, or of the
\* license generate has returned (main, lines 195 and 201)
GliffyEncode ==
    /\ \/ pc = "idle" /\ \E text \in GliffyTexts : license_text' = text
       \/ pc = "generated" /\ gliffy.raised = "" /\ license_text' = gliffy.text
    /\ unwrapped' = gliffy_base64(license_text')
    /\ wire' = gliffy_encode(license_text')
    /\ pc' = "gliffy_encoded"
    /\ origin' = "gliffy_encode"
    /\ UNCHANGED <<nonce, result, gliffy, atlassian, rs>>

\* AtlanssianLicenseGenerator(file).generate(organisation, server_id,
\* custom_variables)
AtlassianGenerate ==
    /\ pc = "idle"
    /\ \E product_info \in ProductInfos, now \in Nows,
          organisation \in Organisations, server_id \in ServerIds,
          custom_variables \in AtlassianVariables :
           atlassian' = atlassian_generate(product_info, now, organisation,
                                           server_id, custom_variables)
    /\ pc' = "atlassian_generated"
    /\ origin' = "atlassian_generate"
    /\ UNCHANGED <<license_text, nonce, unwrapped, wire, result, gliffy, rs>>

\* GliffyLicenseGenerator.rs_hash(text), lines 132-134: a, b and h are set
RsHashCall ==
    /\ pc = "idle"
    /\ \E text \in HashTexts :
           rs' = [text |-> text, i |-> 0, h |-> Limbs(0, 8),
                  a |-> Limbs(RS_A, 4), result |-> <<>>]
    /\ pc' = "hashing"
    /\ origin' = "rs_hash"
    /\ UNCHANGED <<license_text, nonce, unwrapped, wire, result, gliffy,
                   atlassian>>

\* lines 139-143: the loop consumes the next character
RsHashStep ==
    /\ pc = "hashing"
    /\ rs.i < Len(rs.text)
    /\ rs' = [rs_hash_step(rs.text, rs, rs.i + 1) EXCEPT !.i = rs.i + 1]
    /\ UNCHANGED <<pc, license_text, nonce, unwrapped, wire, origin, result,
                   gliffy, atlassian>>

\* lines 145-146: the loop is over, the masked h is returned as a decimal text
RsHashReturn ==
    /\ pc = "hashing"
    /\ rs.i = Len(rs.text)
    /\ rs' = [rs EXCEPT !.result = format_int(int32_masked(rs.h))]
    /\ pc' = "hashed"
    /\ UNCHANGED <<license_text, nonce, unwrapped, wire, origin, result,
                   gliffy, atlassian>>

Next ==
    \/ Encode
    \/ Forge
    \/ TamperSignature
    \/ TamperPayload
    \/ TamperVersion
    \/ TamperLength
    \/ Receive
    \/ Decode
    \/ Generate
    \/ CalculateLicenseKey
    \/ GliffyEncode
    \/ AtlassianGenerate
    \/ RsHashCall
    \/ RsHashStep
    \/ RsHashReturn

Spec == Init /\ [][Next]_vars

\* every stream handed to zlib.decompress is one the model of zlib covers
ZlibCovered == result.raised # "unmodelled"

(***************************************************************************)
(* Properties.  Their vocabulary: the stripped token, the index of its     *)
(* last 'X' and the value of a radix-31 numeral, each written out here     *)
(* independently of the decoder.                                           *)
(***************************************************************************)
\* the index (from 0) of the last c of text, -1 when there is none
LastIndexOf(text, c) ==
    LET places == {i \in 1..Len(text) : text[i] = c}
    IN  IF places = {} THEN -1
        ELSE (CHOOSE i \in places : \A j \in places : j <= i) - 1

Token == SelectSeq(wire, LAMBDA c : ~isspace(c))
LastX == LastIndexOf(Token, 88)
VersionChars == SubSeq(Token, LastX + 2, Min(LastX + 3, Len(Token)))
LengthSuffix == SubSeq(Token, LastX + 4, Len(Token))

IsDecimalDigit(c) == c >= 48 /\ c <= 57
IsLowercaseLetter(c) == c >= 97 /\ c <= 122
\* the first 31 symbols of 0-9a-z: 0-9 and a-u
IsRadix31Symbol(c) == IsDecimalDigit(c) \/ (c >= 97 /\ c <= 117)

RECURSIVE NumeralValue(_, _)
\* the value of a numeral over 0-9a-z in the given radix
NumeralValue(numeral, radix) ==
    IF numeral = <<>> THEN 0
    ELSE LET c == numeral[Len(numeral)]
         IN  (IF IsDecimalDigit(c) THEN c - 48 ELSE (c - 97) + 10)
                 + (radix * NumeralValue(SubSeq(numeral, 1, Len(numeral) - 1),
                                         radix))

\* C1: for every printable-ASCII license text T, the empty one included,
\* decode of encode(T) with the public key of the signing key returns T as
\* the license text and verified = True.
C1_RoundTrip ==
    (/\ pc = "decoded" /\ origin = "encode"
     /\ IsPrintableAscii(license_text)
     /\ result.need_verify /\ result.public_key_path = "calfzhou.pem")
        => (/\ result.raised = ""
            /\ result.text = license_text
            /\ result.verified = "True")

\* a text of more than one line of token has made the round trip
C1_Witness ==
    /\ pc = "decoded" /\ origin = "encode"
    /\ IsPrintableAscii(license_text) /\ Len(license_text) > 76
    /\ result.need_verify /\ result.public_key_path = "calfzhou.pem"
    /\ result.raised = "" /\ result.text = license_text
    /\ result.verified = "True"

\* C2: in every token encode produces, after the whitespace is removed the
\* characters after the last 'X' are "02" and a radix-31 numeral over 0-9a-z
\* whose value is the index of that 'X', which is the length of the base64
\* payload: the last 'X' is the separator, not a character of the payload.
C2_ChecksumInvariant ==
    (pc = "encoded" /\ origin = "encode")
        => LET payload == b64encode(license_blob(license_text, nonce))
           IN  /\ LastX >= 0
               /\ VersionChars = <<48, 50>>
               /\ LengthSuffix # <<>>
               /\ \A i \in 1..Len(LengthSuffix) :
                      IsDecimalDigit(LengthSuffix[i])
                          \/ IsLowercaseLetter(LengthSuffix[i])
               /\ NumeralValue(LengthSuffix, 31) = LastX
               /\ LastX = Len(payload)
               /\ SubSeq(Token, 1, LastX) = payload

\* a token whose base64 payload itself holds an 'X' and whose length needs a
\* letter digit
C2_Witness ==
    /\ pc = "encoded" /\ origin = "encode"
    /\ \E i \in 1..LastX : Token[i] = 88
    /\ \E i \in 1..Len(LengthSuffix) : IsLowercaseLetter(LengthSuffix[i])
    /\ NumeralValue(LengthSuffix, 31) = LastX

\* C3: after any byte of the signature part of the blob of a token of encode
\* is changed and the blob is encoded again, decode succeeds, returns the
\* original license text and verified = False; no error is raised.
C3_TamperDetection ==
    (/\ pc = "decoded" /\ origin = "tamper_signature"
     /\ result.need_verify /\ result.public_key_path = "calfzhou.pem")
        => (/\ result.raised = ""
            /\ result.verified = "False"
            /\ result.text = license_text)

\* where the integers r and s of the signature are changed and the DER
\* structure is left alone, the signature is reported as not verified
TamperedValuesRejected ==
    (/\ pc = "decoded" /\ origin = "tamper_signature"
     /\ result.need_verify /\ result.public_key_path = "calfzhou.pem"
     /\ result.raised = "")
        => (result.verified = "False" /\ result.text = license_text)

\* C4: decode rejects with LicenseDecodeError every token whose two
\* characters after the last 'X' are not a numeric version in {1, 2}, the
\* rest of the token being well-formed with a correct length.
C4_VersionGate ==
    (/\ pc = "decoded" /\ origin = "tamper_version"
     /\ VersionChars \notin {<<48, 49>>, <<48, 50>>})
        => result.raised = "LicenseDecodeError"

\* C5: for a stripped token with a separator and an accepted version, when
\* the radix-31 value of the suffix differs from the index of the last 'X'
\* decode fails with "incorrect checksum" before base64 decoding, signature
\* verification or decompression; when it is equal the content passed on is
\* token[0 : index of the last 'X'].
C5_ChecksumCheck ==
    LET version == PyInt(VersionChars, 10)
        suffix  == PyInt(LengthSuffix, 31)
    IN  (/\ pc = "decoded" /\ wire # <<>>
         /\ LastX >= 0 /\ Len(VersionChars) = 2
         /\ version.ok /\ version.value \in {1, 2}
         /\ suffix.ok)
            => IF suffix.value # LastX
               THEN /\ result.raised = "LicenseDecodeError"
                    /\ result.message = "incorrect checksum"
                    /\ result.calls
                           = <<"_remove_whitespaces", "_get_license_content">>
               ELSE /\ Len(result.calls) >= 3
                    /\ result.calls[3] = "_split_license_content"
                    /\ get_license_content(Token).ok
                    /\ get_license_content(Token).content
                           = SubSeq(Token, 1, LastX)

\* a token of encode whose suffix was rewritten to another length is refused
C5_Witness ==
    /\ pc = "decoded" /\ origin = "tamper_length"
    /\ PyInt(LengthSuffix, 31).ok
    /\ PyInt(LengthSuffix, 31).value # LastX
    /\ result.message = "incorrect checksum"

\* C6 as stated: decode fails with LicenseDecodeError when the stripped
\* token has no 'X' or fewer than 2 characters follow its last 'X'.
C6_SeparatorCheck ==
    (pc = "decoded" /\ (LastX < 0 \/ (Len(Token) - LastX) - 1 < 2))
        => result.raised = "LicenseDecodeError"

\* C6, amended: the empty raw token is refused with a ValueError before it
\* is stripped; every other token without an 'X', or with fewer than 2
\* characters after its last 'X', fails with LicenseDecodeError.
C6_SeparatorCheckNonEmpty ==
    (pc = "decoded" /\ (LastX < 0 \/ (Len(Token) - LastX) - 1 < 2))
        => IF wire = <<>> THEN result.raised = "ValueError"
           ELSE /\ result.raised = "LicenseDecodeError"
                /\ result.calls
                       = <<"_remove_whitespaces", "_get_license_content">>

\* a token that ends one character after its 'X' was refused
C6_Witness ==
    /\ pc = "decoded" /\ origin = "raw"
    /\ LastX >= 0 /\ (Len(Token) - LastX) - 1 = 1
    /\ result.raised = "LicenseDecodeError"

\* C7: decode fails with LicenseDecodeError whenever the suffix after the
\* two version characters holds a character outside 0-9 and lowercase a-u.
C7_DigitValidation ==
    (/\ pc = "decoded" /\ wire # <<>>
     /\ LastX >= 0
     /\ \E i \in 1..Len(LengthSuffix) : ~IsRadix31Symbol(LengthSuffix[i]))
        => result.raised = "LicenseDecodeError"

\* C8: once the structural checks have passed, a payload that does not
\* inflate and a payload that inflates to bytes that are not UTF-8 both make
\* decode fail with LicenseDecodeError, and with no other exception.
C8_PayloadFailures ==
    LET content  == get_license_content(Token)
        split    == split_license_content(content.content)
        inflated == zlib_decompress(
                        SubSeq(split.compressed_license, 6,
                               Len(split.compressed_license)))
    IN  (/\ pc = "decoded" /\ origin \in {"forge", "tamper_payload"}
         /\ content.ok /\ split.raised = ""
         /\ \/ inflated.kind = "error"
            \/ inflated.kind = "ok" /\ ~utf8_decode(inflated.data).ok)
            => result.raised = "LicenseDecodeError"

\* a payload whose checksum was damaged is refused with LicenseDecodeError
DamagedPayloadRefused ==
    (pc = "decoded" /\ origin = "tamper_payload")
        => result.raised = "LicenseDecodeError"

\* C9: the output of encode (Format A and Format B) for an unwrapped token of
\* n characters is ceil(n / 76) lines, all of 76 characters but the last, of
\* 1 to 76, joined by single newlines and ended by a newline; without its
\* newlines it is the unwrapped token.
C9_LineWrap ==
    (pc \in {"encoded", "gliffy_encoded"} /\ origin \in {"encode", "gliffy_encode"})
        => LET n == Len(unwrapped)
               count == (n + 75) \div 76
           IN  /\ Len(wire) = n + (IF count = 0 THEN 1 ELSE count)
               /\ {i \in 1..Len(wire) : wire[i] = 10}
                      = {77 * i : i \in 1..(count - 1)} \cup {Len(wire)}
               /\ count > 0 =>
                      /\ (Len(wire) - 1) - (77 * (count - 1)) >= 1
                      /\ (Len(wire) - 1) - (77 * (count - 1)) <= 76
               /\ SelectSeq(wire, LAMBDA c : c # 10) = unwrapped

\* a Format-B token that fills its only line: 76 characters and a newline
C9_Witness ==
    /\ pc = "gliffy_encoded" /\ origin = "gliffy_encode"
    /\ Len(unwrapped) = 76
    /\ Len(wire) = 77
    /\ wire[77] = 10

\* the text of a field of a mapping, and the number quantity_nodes stands for
FieldText(variables, name) ==
    IF variables[name].type = "int" THEN format_int(variables[name].number)
    ELSE variables[name].text

NodesCount(variables) ==
    IF N_quantity_nodes \notin DOMAIN variables THEN 0
    ELSE IF variables[N_quantity_nodes].type = "int"
    THEN variables[N_quantity_nodes].number
    ELSE NumeralValue(variables[N_quantity_nodes].text, 10)

ClaimedKey(variables) ==
    LET f(name) == FieldText(variables, name)
        node == IF NodesCount(variables) > 1
                THEN FieldText(variables, N_quantity_nodes) ELSE <<>>
        dash == <<45>>
    IN  rs_hash(f(N_quantity_users) \o f(N_license_type) \o f(N_name)
                    \o f(N_organisation) \o f(N_expiration_date) \o node)
        \o dash
        \o rs_hash(f(N_organisation) \o f(N_quantity_users) \o node
                       \o f(N_license_type) \o f(N_expiration_date) \o f(N_name))
        \o dash
        \o rs_hash(node \o f(N_organisation) \o f(N_name)
                       \o f(N_quantity_users) \o f(N_license_type)
                       \o f(N_expiration_date))
        \o dash
        \o rs_hash(f(N_name) \o f(N_expiration_date) \o node
                       \o f(N_organisation) \o f(N_license_type)
                       \o f(N_quantity_users))

\* C10: for a mapping that defines quantity_users, license_type, name,
\* organisation and expiration_date the license key is the four rs_hash
\* texts, joined with '-', of the four orders of the fields, with node_part
\* the decimal text of quantity_nodes when quantity_nodes > 1 and empty
\* otherwise (at most 1, the default -1, or absent).
C10_KeyDerivation ==
    (/\ pc \in {"generated", "keyed"}
     /\ {N_quantity_users, N_license_type, N_name, N_organisation,
         N_expiration_date} \subseteq DOMAIN gliffy.template_variables
     /\ gliffy.raised = "")
        => gliffy.license_key = ClaimedKey(gliffy.template_variables)

\* with quantity_nodes an integer, or absent, the key is the claimed one
IntegerNodesKey ==
    (/\ pc \in {"generated", "keyed"} /\ gliffy.raised = ""
     /\ \/ N_quantity_nodes \notin DOMAIN gliffy.template_variables
        \/ gliffy.template_variables[N_quantity_nodes].type = "int")
        => gliffy.license_key = ClaimedKey(gliffy.template_variables)

\* the five fields of a license a key is derived from
LicenseFields ==
    {N_quantity_users, N_license_type, N_name, N_organisation,
     N_expiration_date}

\* the mapping with the values of two fields swapped
Swapped(variables, f, g) ==
    [variables EXCEPT ![f] = variables[g], ![g] = variables[f]]

\* the parts of a text which a separator separates
RECURSIVE SplitAt(_, _)
SplitAt(text, separator) ==
    IF \A i \in 1..Len(text) : text[i] # separator THEN <<text>>
    ELSE LET first == CHOOSE i \in 1..Len(text) :
                          /\ text[i] = separator
                          /\ \A j \in 1..(i - 1) : text[j] # separator
         IN  <<SubSeq(text, 1, first - 1)>>
                 \o SplitAt(SubSeq(text, first + 1, Len(text)), separator)

\* the components of a license key
KeyComponents(key) == SplitAt(key, 45)

\* the four texts of a mapping the components of its key are the hashes of
OrderedTexts(variables) ==
    LET f(name) == FieldText(variables, name)
        node == node_part(variables)
    IN  <<f(N_quantity_users) \o f(N_license_type) \o f(N_name)
              \o f(N_organisation) \o f(N_expiration_date) \o node,
          f(N_organisation) \o f(N_quantity_users) \o node
              \o f(N_license_type) \o f(N_expiration_date) \o f(N_name),
          node \o f(N_organisation) \o f(N_name) \o f(N_quantity_users)
              \o f(N_license_type) \o f(N_expiration_date),
          f(N_name) \o f(N_expiration_date) \o node \o f(N_organisation)
              \o f(N_license_type) \o f(N_quantity_users)>>

\* a key has been derived from a mapping that defines the five fields
KeyedMapping ==
    /\ pc \in {"generated", "keyed"}
    /\ gliffy.raised = ""
    /\ LicenseFields \subseteq DOMAIN gliffy.template_variables

\* the pairs of fields whose values are swapped: any two fields of a mapping
\* handed to _calculate_license_key, name and organisation of the mapping
\* generate has built
SwapPairs ==
    IF pc = "keyed" THEN LicenseFields \X LicenseFields
    ELSE {<<N_name, N_organisation>>}

\* the components of the key of the mapping with two values swapped
SwappedComponents(f, g) ==
    KeyComponents(
        calculate_license_key(Swapped(gliffy.template_variables, f, g)).key)

\* C11 as stated: swapping the values of two license fields that hold
\* different values changes all 4 components of the derived key; none stays
\* the same.
C11_OrderSensitivity ==
    KeyedMapping =>
        \A pair \in SwapPairs :
            LET f == pair[1]
                g == pair[2]
            IN  gliffy.template_variables[f] # gliffy.template_variables[g] =>
                    LET before == KeyComponents(gliffy.license_key)
                        after == SwappedComponents(f, g)
                    IN  \A t \in 1..4 : before[t] # after[t]

\* C11: swapping the values of two license fields that hold different values
\* leaves a component of the key the same whenever the text of that
\* component's order of the fields is the same after the swap (name 'A' and
\* organisation 'AA': the first and the third component, where the two
\* fields are adjacent); so not all 4 components need change.
C11_SameTextSameComponent ==
    KeyedMapping =>
        \A pair \in SwapPairs :
            LET f == pair[1]
                g == pair[2]
            IN  gliffy.template_variables[f] # gliffy.template_variables[g] =>
                    LET before == KeyComponents(gliffy.license_key)
                        after == SwappedComponents(f, g)
                        texts == OrderedTexts(gliffy.template_variables)
                        swapped == OrderedTexts(Swapped(
                                       gliffy.template_variables, f, g))
                    IN  /\ Len(before) = 4
                        /\ Len(after) = 4
                        /\ \A t \in 1..4 :
                               texts[t] = swapped[t] => before[t] = after[t]

\* a key derived from name 'A' and organisation 'AA': swapping the two
\* keeps the first and the third component and changes the other two
C11_Witness ==
    /\ KeyedMapping
    /\ pc = "keyed"
    /\ gliffy.template_variables[N_name] = PyUnicode(<<65>>)
    /\ gliffy.template_variables[N_organisation] = PyUnicode(<<65, 65>>)
    /\ LET before == KeyComponents(gliffy.license_key)
           after == SwappedComponents(N_name, N_organisation)
       IN  /\ before[1] = after[1]
           /\ before[3] = after[3]
           /\ before[2] # after[2]
           /\ before[4] # after[4]

\* the names a template refers to: the texts between a '{' and the next '}'
FieldsOf(template) ==
    {SubSeq(template, i + 1, j - 1) :
        <<i, j>> \in {pair \in (1..Len(template)) \X (1..Len(template)) :
                        /\ pair[1] < pair[2]
                        /\ template[pair[1]] = 123
                        /\ template[pair[2]] = 125
                        /\ \A k \in (pair[1] + 1)..(pair[2] - 1) :
                               template[k] \notin {123, 125}}}

\* the fields the key templates and the license template of Gliffy refer to,
\* node_part and license_key, which the generator computes, left out
GliffyFields == LicenseFields \cup {N_license_version, N_quantity_nodes}

\* generate was called and a field its templates refer to is not among the
\* merged variables
GliffyFieldMissing ==
    /\ pc = "generated"
    /\ \E name \in GliffyFields : name \notin DOMAIN gliffy.template_variables

AtlassianFieldMissing ==
    /\ pc = "atlassian_generated"
    /\ \E name \in FieldsOf(atlassian.template) :
           name \notin DOMAIN atlassian.template_variables

\* C12: whenever a field a key template or the license template refers to is
\* absent from the merged variables, generate raises LicenseGenerationError,
\* not another exception, and returns no license text; for the Gliffy
\* generator and for the Atlassian template generator.
C12_MissingField ==
    /\ GliffyFieldMissing =>
           (gliffy.raised = "LicenseGenerationError" /\ gliffy.text = <<>>)
    /\ AtlassianFieldMissing =>
           (atlassian.raised = "LicenseGenerationError"
                /\ atlassian.text = <<>>)

\* the same holds of every call whose custom variables do not define
\* node_part, and the Atlassian generator raises for no other reason
MissingFieldWithoutNodePart ==
    /\ (GliffyFieldMissing /\ N_node_part \notin DOMAIN gliffy.custom_variables)
           => (/\ gliffy.raised = "LicenseGenerationError"
               /\ gliffy.text = <<>>
               /\ gliffy.message =
                      "missing required template variable to generate license key")
    /\ pc = "atlassian_generated" =>
           IF AtlassianFieldMissing
           THEN /\ atlassian.raised = "LicenseGenerationError"
                /\ atlassian.message = "missing required template variable"
                /\ atlassian.text = <<>>
           ELSE atlassian.raised = ""

\* a call of each generator with a field missing
MissingFieldReached ==
    \/ GliffyFieldMissing /\ gliffy.product = PRODUCT_CUSTOM
           /\ gliffy.custom_variables = NoVariables
    \/ AtlassianFieldMissing /\ atlassian.organisation = <<>>

\* Unsigned numbers as sequences of bits, the least significant first: the
\* bits of a small number and of a sequence of limbs, the sum and the product
\* of two numbers cut to the width of the first
BitsOf(n, width) ==
    [k \in 1..width |-> IF k <= 31 THEN (n \div Pow2(k - 1)) % 2 ELSE 0]

LimbBits(limbs) ==
    [k \in 1..(8 * Len(limbs)) |->
        (limbs[((k - 1) \div 8) + 1] \div Pow2((k - 1) % 8)) % 2]

RECURSIVE AddBitsFrom(_, _, _, _)
AddBitsFrom(x, y, k, carry) ==
    IF k > Len(x) THEN <<>>
    ELSE LET t == (x[k] + y[k]) + carry
         IN  <<t % 2>> \o AddBitsFrom(x, y, k + 1, t \div 2)

AddBits(x, y) == AddBitsFrom(x, y, 1, 0)

ShiftBits(x, j) == [k \in 1..Len(x) |-> IF k > j THEN x[k - j] ELSE 0]

RECURSIVE MulBitsFrom(_, _, _)
MulBitsFrom(x, y, j) ==
    IF j > Len(y) THEN [k \in 1..Len(x) |-> 0]
    ELSE LET rest == MulBitsFrom(x, y, j + 1)
         IN  IF y[j] = 1 THEN AddBits(ShiftBits(x, j - 1), rest) ELSE rest

MulBits(x, y) == MulBitsFrom(x, y, 1)

RECURSIVE BitsValue(_, _)
\* the number the width low bits stand for
BitsValue(bits, width) ==
    IF width = 0 THEN 0
    ELSE (bits[width] * Pow2(width - 1)) + BitsValue(bits, width - 1)

RECURSIVE ClaimedAfter(_, _)
\* h (64 bits) and a (32 bits) after i characters of a text: a = 63689 and
\* h = 0 at first, then h = (h * a + codepoint) mod 2^64 and
\* a = (a * 378551) mod 2^32 for every character
ClaimedAfter(text, i) ==
    IF i = 0 THEN [h |-> BitsOf(0, 64), a |-> BitsOf(63689, 32)]
    ELSE LET before == ClaimedAfter(text, i - 1)
         IN  [h |-> AddBits(MulBits(before.h, before.a), BitsOf(text[i], 64)),
              a |-> MulBits(before.a, BitsOf(378551, 32))]

\* C13: after every character rs_hash has h in [0, 2^64 - 1] and a in
\* [0, 2^32 - 1], with h = (h * a + codepoint) mod 2^64 and then
\* a = (a * 378551) mod 2^32 from a = 63689 and h = 0; it returns the decimal
\* text of h mod 2^31, a number in [0, 2^31 - 1], and '0' for the empty text.
C13_RsHashAccumulation ==
    pc \in {"hashing", "hashed"} =>
        LET claimed == ClaimedAfter(rs.text, rs.i)
            value == BitsValue(claimed.h, 31)
        IN  /\ Len(rs.h) = 8
            /\ \A k \in 1..8 : rs.h[k] \in 0..255
            /\ Len(rs.a) = 4
            /\ \A k \in 1..4 : rs.a[k] \in 0..255
            /\ LimbBits(rs.h) = claimed.h
            /\ LimbBits(rs.a) = claimed.a
            /\ pc = "hashed" =>
                   /\ rs.i = Len(rs.text)
                   /\ rs.result # <<>>
                   /\ \A k \in 1..Len(rs.result) : IsDecimalDigit(rs.result[k])
                   /\ Len(rs.result) > 1 => rs.result[1] # 48
                   /\ NumeralValue(rs.result, 10) = value
                   /\ value \in 0..2147483647
                   /\ rs.text = <<>> => rs.result = <<48>>
                   /\ rs.result = rs_hash(rs.text)

\* rs_hash has returned the hash of a text of four characters or more, after
\* h has grown beyond 56 bits
C13_Witness ==
    /\ pc = "hashed"
    /\ Len(rs.text) >= 4
    /\ rs.h[8] # 0
    /\ rs.result # <<48>>

\* rs_hash has returned the hash of the empty text
EmptyTextHashed == pc = "hashed" /\ rs.text = <<>> /\ rs.result = <<48>>

\* the final value of a field of a call of generate: the caller's override,
\* else the organisation argument if it is not empty, else the name of a
\* known product, else the default
ClaimedFinal(product, organisation, custom_variables) ==
    LET names == (DOMAIN generate_default_variables \cup DOMAIN custom_variables)
                     \cup (IF product \in DOMAIN KNOWN_PRODUCTS
                           THEN {N_name} ELSE {})
                     \cup (IF organisation # <<>> THEN {N_organisation} ELSE {})
    IN  [name \in names |->
            IF name \in DOMAIN custom_variables THEN custom_variables[name]
            ELSE IF name = N_organisation THEN PyUnicode(organisation)
            ELSE IF name = N_name THEN PyUnicode(KNOWN_PRODUCTS[product])
            ELSE generate_default_variables[name]]

\* the license text of the fields of a mapping and a key
ClaimedLicense(variables, key) ==
    LET f(name) == FieldText(variables, name)
    IN
        \* '{"licenseVersion":'
        <<123, 34, 108, 105, 99, 101, 110, 115, 101, 86, 101, 114, 115,
             105, 111, 110, 34, 58>>
        \o f(N_license_version)
        \* ',"licenseKey":"'
        \o <<44, 34, 108, 105, 99, 101, 110, 115, 101, 75, 101, 121, 34,
             58, 34>>
        \o key
        \* '","licensedSystem":"'
        \o <<34, 44, 34, 108, 105, 99, 101, 110, 115, 101, 100, 83, 121,
             115, 116, 101, 109, 34, 58, 34>>
        \o f(N_name)
        \* '","licensedTo":"'
        \o <<34, 44, 34, 108, 105, 99, 101, 110, 115, 101, 100, 84, 111,
             34, 58, 34>>
        \o f(N_organisation)
        \* '","licenseType":"'
        \o <<34, 44, 34, 108, 105, 99, 101, 110, 115, 101, 84, 121, 112,
             101, 34, 58, 34>>
        \o f(N_license_type)
        \* '","quantityUsers":'
        \o <<34, 44, 34, 113, 117, 97, 110, 116, 105, 116, 121, 85, 115,
             101, 114, 115, 34, 58>>
        \o f(N_quantity_users)
        \* ',"quantityNodes":'
        \o <<44, 34, 113, 117, 97, 110, 116, 105, 116, 121, 78, 111, 100,
             101, 115, 34, 58>>
        \o f(N_quantity_nodes)
        \* ',"expirationDate":"'
        \o <<44, 34, 101, 120, 112, 105, 114, 97, 116, 105, 111, 110, 68,
             97, 116, 101, 34, 58, 34>>
        \o f(N_expiration_date)
        \* '"}'
        \o <<34, 125>>

\* a text occurs within another
Contains(text, part) ==
    \E i \in 1..((Len(text) - Len(part)) + 1) :
        SubSeq(text, i, (i + Len(part)) - 1) = part

\* C14: generate merges the defaults, the name of the product, the
\* organisation argument, the caller's overrides and the computed license_key
\* in this order, the later winning: the licenseKey in the generated text is
\* the key derived from the same final values the rest of the text shows, and
\* a license_key of the caller is not in the text.
C14_MergeOrder ==
    (pc = "generated" /\ gliffy.raised = "") =>
        LET final == ClaimedFinal(gliffy.product, gliffy.organisation,
                                  gliffy.custom_variables)
            key == calculate_license_key(final).key
        IN  /\ gliffy.license_key = key
            /\ gliffy.text = ClaimedLicense(final, key)
            /\ N_license_key \in DOMAIN gliffy.custom_variables =>
                   /\ gliffy.custom_variables[N_license_key].text # key
                   /\ ~Contains(gliffy.text,
                          <<34, 108, 105, 99, 101, 110, 115, 101, 75, 101, 121, 34, 58, 34>>
                              \o gliffy.custom_variables[N_license_key].text
                              \o <<34>>)

\* generate has returned the license of a known product whose name the caller
\* has overridden: the text shows the caller's name
C14_Witness ==
    /\ pc = "generated"
    /\ gliffy.raised = ""
    /\ gliffy.product = PRODUCT_JIRA
    /\ gliffy.organisation # <<>>
    /\ N_name \in DOMAIN gliffy.custom_variables
    /\ Contains(gliffy.text,
                <<34, 108, 105, 99, 101, 110, 115, 101, 100, 83, 121, 115, 116, 101, 109, 34, 58, 34>>
                    \o gliffy.custom_variables[N_name].text \o <<34>>)

\* generate has returned a license although the caller gave a license_key
LicenseKeyOverridden ==
    /\ pc = "generated"
    /\ gliffy.raised = ""
    /\ N_license_key \in DOMAIN gliffy.custom_variables

\* C15: when a custom template that is not empty is passed to generate, the
\* license generate returns is the substitution of the variables into that
\* custom template: the custom template replaces the default one.
C15_CustomTemplate ==
    (/\ pc = "generated"
     /\ strip(gliffy.custom_template) # <<>>
     /\ gliffy.raised = "")
        => gliffy.text = format(strip(gliffy.custom_template),
                                gliffy.template_variables).text

\* whatever custom template is passed, the license is the one generate
\* returns without a custom template: the default template filled
CustomTemplateIgnored ==
    pc = "generated" =>
        LET plain == generate(gliffy.product, gliffy.organisation,
                              gliffy.custom_variables, NoTemplate)
        IN  /\ gliffy.raised = plain.raised
            /\ gliffy.text = plain.text
            /\ gliffy.raised = "" =>
                   gliffy.text = format(strip(LICENSE_TEMPLATE),
                                        gliffy.template_variables).text

=============================================================================
